---- MODULE Spec2Model ----
(***************************************************************************)
(* Graph RAG (src/graph_rag): the Neo4j graph store and the ingestion      *)
(* pipeline that writes to it.                                             *)
(*                                                                         *)
(* A Python str that the code takes apart (upper, replace, indexing, the   *)
(* `in` substring test, f-string concatenation) is a sequence of           *)
(* one-character strings.  A str the code only passes along (an entity     *)
(* label, a relation context, an error name) is a TLA+ string.             *)
(***************************************************************************)
EXTENDS Integers, Sequences, FiniteSets, TLC

VARIABLES
    entityNodes,   \* the (:Entity) nodes of the database
    chunkNodes,    \* the (:Chunk) nodes of the database
    rels,          \* the relationships of the database
    constraints,   \* the uniqueness constraints that exist, by name
    indexes,       \* the vector indexes that exist
    last,          \* the last call made: its name, arguments and outcome
    runs,          \* the calls of process_text_file in progress, statement by statement
    drivers,       \* the Neo4j drivers the API endpoints opened and did not close
    tmp_files      \* the temporary files the API endpoints wrote and did not unlink

vars == <<entityNodes, chunkNodes, rels, constraints, indexes, last, runs, drivers, tmp_files>>

----------------------------------------------------------------------------
(* Bounds of the model. *)

\* longest list of entities or relations given to one store call
MaxBatch == 2
\* deepest traversal asked of get_entity_subgraph
MaxDepth == 2
\* pipelines that run process_text_file at the same time
MaxPipelines == 2
\* largest k asked of similarity_search and query
MaxK == 2
\* longest list of documents or embeddings given to one store call
MaxChunks == 2
\* longest text given to clean_text
MaxTextLen == 5
\* most entities and most verbs of a sentence
MaxSentEnts == 3
MaxVerbs == 2
\* longest text given to split_into_chunks, and largest chunk_size
MaxSplitLen == 5
MaxChunkSize == 4
\* most drivers the API endpoints leave open
MaxDrivers == 2
\* most documents of the hello-world knowledge base, and largest top_k
MaxDocs == 3
MaxTopK == 4

----------------------------------------------------------------------------
(* Characters and strings. *)

LowerCase == <<"a", "b", "c", "d", "e", "f", "g", "h", "i", "j", "k", "l", "m",
               "n", "o", "p", "q", "r", "s", "t", "u", "v", "w", "x", "y", "z">>
UpperCase == <<"A", "B", "C", "D", "E", "F", "G", "H", "I", "J", "K", "L", "M",
               "N", "O", "P", "Q", "R", "S", "T", "U", "V", "W", "X", "Y", "Z">>
Digits == <<"0", "1", "2", "3", "4", "5", "6", "7", "8", "9">>

Range(s) == {s[i] : i \in DOMAIN s}

Letters == Range(LowerCase) \cup Range(UpperCase)
DigitChars == Range(Digits)

\* str.isalpha() of one character
isalpha(c) == c \in Letters

\* the upper-case letter of each lower-case letter
UpperOf == [c \in Range(LowerCase) |-> UpperCase[CHOOSE i \in DOMAIN LowerCase : LowerCase[i] = c]]

\* str.upper() of one character, then of a string
upper_char(c) == IF c \in DOMAIN UpperOf THEN UpperOf[c] ELSE c
upper(s) == [i \in DOMAIN s |-> upper_char(s[i])]

\* str.replace(old, new) for a one-character old and new
replace(s, old, new) == [i \in DOMAIN s |-> IF s[i] = old THEN new ELSE s[i]]

\* haystack.startswith(needle)
StartsWith(needle, haystack) ==
    Len(needle) <= Len(haystack) /\ \A i \in DOMAIN needle : haystack[i] = needle[i]

\* needle in haystack
IsSubstring(needle, haystack) ==
    \E k \in 0..(Len(haystack) - Len(needle)) :
        \A i \in DOMAIN needle : haystack[k + i] = needle[i]

\* str(i) of a small non-negative int
str_int(i) == IF i < 10 THEN <<Digits[i + 1]>>
              ELSE <<Digits[(i \div 10) + 1], Digits[(i % 10) + 1]>>

RELATED_TO == <<"R", "E", "L", "A", "T", "E", "D", "_", "T", "O">>
MENTIONS == <<"M", "E", "N", "T", "I", "O", "N", "S">>

----------------------------------------------------------------------------
(* The graph database: nodes carry the ordinal `nid` that tells apart nodes *)
(* with equal key properties, relationships the ordinal `rid` that tells    *)
(* apart parallel relationships of one type.                                *)

NoError == "none"
NoValue == "None"
NoContext == "<no property>"

\* before any call
NoCall == [op |-> "__init__", args |-> <<>>, raised |-> NoError, value |-> NoValue,
           interpolated |-> <<>>]

\* the database as the store's methods see it
G == [entityNodes |-> entityNodes, chunkNodes |-> chunkNodes, rels |-> rels,
      constraints |-> constraints, indexes |-> indexes]

EntityRef(n) == [label |-> "Entity", key |-> n.text, nid |-> n.nid]
ChunkRef(n) == [label |-> "Chunk", key |-> n.chunk_id, nid |-> n.nid]

\* MATCH (e:Entity {text: $text})
MatchEntity(g, text) == {n \in g.entityNodes : n.text = text}
\* MATCH (c:Chunk {chunk_id: $chunk_id})
MatchChunk(g, chunk_id) == {n \in g.chunkNodes : n.chunk_id = chunk_id}

\* the outcome of a call: the graph it leaves, the exception it raised, the
\* value it returned, and the strings it wrote into statement bodies (all other
\* values reach the database as statement parameters)
Interpolating(g, raised, value, interpolated) ==
    [g |-> g, raised |-> raised, value |-> value, interpolated |-> interpolated]
Outcome(g, raised, value) == Interpolating(g, raised, value, <<>>)

----------------------------------------------------------------------------
(* Neo4jGraphStore.store_entities *)

\* MERGE (e:Entity {text: $text}) ON CREATE SET ...: a node that exists keeps
\* the label and span it has
MergeEntityOnCreate(g, entity) ==
    IF MatchEntity(g, entity.text) # {}
    THEN g
    ELSE [g EXCEPT !.entityNodes = @ \cup {[text |-> entity.text, nid |-> 0,
                                            label |-> entity.label,
                                            start |-> entity.start, end |-> entity.end]}]

\* MERGE (e:Entity {text: $text}) SET e.label, e.start, e.end
MergeEntity(g, entity) ==
    LET found == MatchEntity(g, entity.text)
        bound == IF found = {}
                 THEN {[text |-> entity.text, nid |-> 0]}
                 ELSE {[text |-> n.text, nid |-> n.nid] : n \in found}
        written == {[text |-> b.text, nid |-> b.nid, label |-> entity.label,
                     start |-> entity.start, end |-> entity.end] : b \in bound}
    IN  [g EXCEPT !.entityNodes = (g.entityNodes \ found) \cup written]

RECURSIVE store_entities_loop(_, _, _)
store_entities_loop(g, entities, count) ==
    IF entities = <<>>
    THEN Outcome(g, NoError, count)
    ELSE store_entities_loop(MergeEntity(g, Head(entities)), Tail(entities), count + 1)

store_entities(g, entities) == store_entities_loop(g, entities, 0)

----------------------------------------------------------------------------
(* Neo4jGraphStore.store_relations *)

\* lines 123-125: the relationship type put into the statement
safe_rel_type(relation_type) ==
    LET s == replace(replace(upper(relation_type), " ", "_"), "-", "_")
    IN  IF s = <<>> \/ ~isalpha(s[1]) THEN RELATED_TO ELSE s

\* A relationship type written unquoted into a statement, as line 130 writes
\* it, is read by the database as a type name only when it is an identifier;
\* any other text makes the statement malformed (CypherSyntaxError).
IsIdentifier(s) ==
    /\ s # <<>>
    /\ isalpha(s[1]) \/ s[1] = "_"
    /\ \A i \in DOMAIN s : isalpha(s[i]) \/ s[i] \in DigitChars \/ s[i] = "_"

\* MATCH the start and end nodes, then MERGE (start)-[r:TYPE]->(end): for every
\* pair of matched nodes the relationships of that type between them are bound,
\* or one is created when there is none; `set_context` is the SET r.context
\* clause of store_relations (link_chunks_to_entities has no SET).
MergeRelationship(g, type, starts, ends, set_context, context) ==
    LET pairs == starts \X ends
        Found(p) == {r \in g.rels : r.type = type /\ r.start = p[1] /\ r.end = p[2]}
        found == UNION {Found(p) : p \in pairs}
        created == {[type |-> type, start |-> p[1], end |-> p[2], rid |-> 0,
                     context |-> IF set_context THEN context ELSE NoContext] :
                        p \in {q \in pairs : Found(q) = {}}}
        updated == IF set_context
                   THEN {[r EXCEPT !.context = context] : r \in found}
                   ELSE found
    IN  [g EXCEPT !.rels = (g.rels \ found) \cup updated \cup created]

\* ... MERGE (source)-[r:TYPE]->(target) ON CREATE SET r.context: an edge that
\* exists keeps its context
MergeRelationOnCreate(g, type, relation) ==
    LET starts == {EntityRef(n) : n \in MatchEntity(g, relation.source)}
        ends == {EntityRef(n) : n \in MatchEntity(g, relation.target)}
    IN  IF \E r \in g.rels : r.type = type /\ r.start \in starts /\ r.end \in ends
        THEN g
        ELSE MergeRelationship(g, type, starts, ends, TRUE, relation.context)

\* lines 127-133: one session.run of store_relations
MergeRelation(g, type, relation) ==
    MergeRelationship(g, type,
                      {EntityRef(n) : n \in MatchEntity(g, relation.source)},
                      {EntityRef(n) : n \in MatchEntity(g, relation.target)},
                      TRUE, relation.context)

\* `interpolated` lists the relationship types the f-string of line 127 has
\* written into a statement body, in order.
RECURSIVE store_relations_loop(_, _, _, _)
store_relations_loop(g, relations, count, interpolated) ==
    IF relations = <<>>
    THEN Interpolating(g, NoError, count, interpolated)
    ELSE LET relation == Head(relations)
             type == safe_rel_type(relation.relation_type)
         IN  IF ~IsIdentifier(type)
             THEN Interpolating(g, "CypherSyntaxError", NoValue, Append(interpolated, type))
             ELSE store_relations_loop(MergeRelation(g, type, relation),
                                       Tail(relations), count + 1,
                                       Append(interpolated, type))

store_relations(g, relations) == store_relations_loop(g, relations, 0, <<>>)

----------------------------------------------------------------------------
(* Neo4jGraphStore.store_chunks_with_embeddings, link_chunks_to_entities *)

\* dict.get(key, default)
metadata_get(metadata, key, default) ==
    IF key \in DOMAIN metadata THEN metadata[key] ELSE default

unknown == <<"u", "n", "k", "n", "o", "w", "n">>

\* lines 155 and 179: f"{source}_{chunk_id}"
chunk_id_of(doc, position) ==
    metadata_get(doc.metadata, "source", unknown) \o <<"_">>
        \o str_int(metadata_get(doc.metadata, "chunk_id", position))

\* CREATE (c:Chunk {chunk_id: $chunk_id, ...}): a new node at every call
CreateChunk(g, doc, embedding, count) ==
    LET chunk_id == chunk_id_of(doc, count)
    IN  [g EXCEPT !.chunkNodes = @ \cup
            {[chunk_id |-> chunk_id, nid |-> Cardinality(MatchChunk(g, chunk_id)),
              text |-> doc.page_content, embedding |-> embedding,
              source |-> metadata_get(doc.metadata, "source", unknown),
              chunk_size |-> metadata_get(doc.metadata, "chunk_size", Len(doc.page_content))]}]

\* MERGE (c:Chunk {chunk_id: $chunk_id}) ON CREATE SET ...: a chunk that exists
\* keeps the text, embedding, source and size it has
MergeChunkOnCreate(g, doc, embedding, count) ==
    IF MatchChunk(g, chunk_id_of(doc, count)) # {}
    THEN g
    ELSE [g EXCEPT !.chunkNodes = @ \cup
            {[chunk_id |-> chunk_id_of(doc, count), nid |-> 0,
              text |-> doc.page_content, embedding |-> embedding,
              source |-> metadata_get(doc.metadata, "source", unknown),
              chunk_size |-> metadata_get(doc.metadata, "chunk_size", Len(doc.page_content))]}]

\* MERGE (c:Chunk {chunk_id: $chunk_id}) SET c.text, c.embedding, c.source, c.chunk_size
MergeChunk(g, doc, embedding, count) ==
    LET chunk_id == chunk_id_of(doc, count)
        found == MatchChunk(g, chunk_id)
        bound == IF found = {} THEN {0} ELSE {n.nid : n \in found}
        written == {[chunk_id |-> chunk_id, nid |-> b, text |-> doc.page_content,
                     embedding |-> embedding,
                     source |-> metadata_get(doc.metadata, "source", unknown),
                     chunk_size |-> metadata_get(doc.metadata, "chunk_size",
                                                 Len(doc.page_content))] : b \in bound}
    IN  [g EXCEPT !.chunkNodes = (g.chunkNodes \ found) \cup written]

Min(a, b) == IF a <= b THEN a ELSE b
Max(a, b) == IF a >= b THEN a ELSE b

RECURSIVE store_chunks_loop(_, _, _, _)
store_chunks_loop(g, documents, embeddings, count) ==
    IF count >= Min(Len(documents), Len(embeddings))
    THEN Outcome(g, NoError, count)
    ELSE store_chunks_loop(MergeChunk(g, documents[count + 1], embeddings[count + 1], count),
                           documents, embeddings, count + 1)

store_chunks_with_embeddings(g, documents, embeddings) ==
    store_chunks_loop(g, documents, embeddings, 0)

\* lines 183-189: the inner loop over the entities, for one document
RECURSIVE link_entities_loop(_, _, _, _)
link_entities_loop(g, chunk_id, text, entities) ==
    IF entities = <<>>
    THEN g
    ELSE LET entity == Head(entities)
             linked == IF IsSubstring(entity.text, text)
                       THEN MergeRelationship(g, MENTIONS,
                                {ChunkRef(n) : n \in MatchChunk(g, chunk_id)},
                                {EntityRef(n) : n \in MatchEntity(g, entity.text)},
                                FALSE, NoContext)
                       ELSE g
         IN  link_entities_loop(linked, chunk_id, text, Tail(entities))

RECURSIVE link_chunks_loop(_, _, _, _)
link_chunks_loop(g, documents, entities, i) ==
    IF i >= Len(documents)
    THEN Outcome(g, NoError, NoValue)
    ELSE LET doc == documents[i + 1]
         IN  link_chunks_loop(
                 link_entities_loop(g, chunk_id_of(doc, i), doc.page_content, entities),
                 documents, entities, i + 1)

link_chunks_to_entities(g, documents, entities) == link_chunks_loop(g, documents, entities, 0)

----------------------------------------------------------------------------
(* Neo4jGraphStore.similarity_search *)

Dot(a, b) == LET RECURSIVE sum(_)
                 sum(i) == IF i = 0 THEN 0 ELSE a[i] * b[i] + sum(i - 1)
             IN  sum(Len(a))

\* The cosine of two vectors, kept exact as the fraction num / den of its
\* signed square: (a.b)|a.b| / (|a|^2 |b|^2).  The score the index yields,
\* (1 + cosine) / 2, grows and falls with it.
Cosine(a, b) == [num |-> Dot(a, b) * (IF Dot(a, b) < 0 THEN -Dot(a, b) ELSE Dot(a, b)),
                 den |-> Dot(a, a) * Dot(b, b)]

ScoreLeq(s, t) == s.num * t.den <= t.num * s.den

\* the nodes a vector index holds: the Chunk nodes whose embedding has the
\* dimension of the index and a direction
Indexed(g, index) ==
    {n \in g.chunkNodes : Len(n.embedding) = index.dimension /\ Dot(n.embedding, n.embedding) > 0}

\* RETURN node.chunk_id AS chunk_id, node.text AS text, node.source AS source, score
Record(n, query_embedding) ==
    [chunk_id |-> n.chunk_id, text |-> n.text, source |-> n.source,
     score |-> Cosine(n.embedding, query_embedding)]

\* descending order: a row scores no higher than the row before it
DescendingScores(rows) ==
    \A i \in DOMAIN rows : i > 1 => ScoreLeq(rows[i].score, rows[i - 1].score)

\* ascending order
AscendingScores(rows) ==
    \A i \in DOMAIN rows : i > 1 => ScoreLeq(rows[i - 1].score, rows[i].score)

\* ORDER BY score DESC; the order of rows of equal score is the database's
Ordered(rows) == DescendingScores(rows)

\* CALL db.index.vector.queryNodes(name, k, query_embedding) ... ORDER BY score
\* DESC: the k nearest of the indexed nodes, nearest first.  Which of several
\* nodes of equal score are among the k, and in what order, is the database's
\* choice: every such list is a possible result.
QueryNodes(g, index, k, query_embedding) ==
    LET nodes == Indexed(g, index)
        m == Min(k, Cardinality(nodes))
        Nearest(chosen) ==
            \A n \in chosen : \A other \in nodes \ chosen :
                ScoreLeq(Cosine(other.embedding, query_embedding),
                         Cosine(n.embedding, query_embedding))
    IN  {rows \in UNION {[1..m -> {Record(n, query_embedding) : n \in chosen}] :
                            chosen \in {c \in SUBSET nodes : Cardinality(c) = m /\ Nearest(c)}} :
            /\ \A i, j \in 1..m : i # j => rows[i] # rows[j]
            /\ Ordered(rows)}

\* lines 206-217; the procedure fails when the index named does not exist,
\* when k is not positive, and when the vector has not the dimension of the
\* index or has no direction
similarity_search(g, query_embedding, k) ==
    LET named == {x \in g.indexes : x.name = "chunk_embeddings"}
    IN  IF \/ named = {}
           \/ k < 1
           \/ \E x \in named : Len(query_embedding) # x.dimension
           \/ Dot(query_embedding, query_embedding) = 0
        THEN {Outcome(g, "ClientError", NoValue)}
        ELSE {Outcome(g, NoError, rows) :
                 rows \in QueryNodes(g, CHOOSE x \in named : TRUE, k, query_embedding)}

----------------------------------------------------------------------------
(* Neo4jGraphStore.get_entity_subgraph *)

\* the nodes of the database, by reference
NodeRefs(g) == {EntityRef(n) : n \in g.entityNodes} \cup {ChunkRef(n) : n \in g.chunkNodes}

\* the other end of a relationship followed from node `ref` in either direction
OtherEnd(r, ref) == IF r.start = ref THEN r.end ELSE r.start

\* one more hop: a relationship at the path's last node that the path has not
\* used yet (a pattern never binds one relationship twice)
ExtendPath(g, path) ==
    LET at == path.nodes[Len(path.nodes)]
    IN  {[nodes |-> Append(path.nodes, OtherEnd(r, at)), relationships |-> Append(path.relationships, r)] :
            r \in {x \in g.rels : (x.start = at \/ x.end = at)
                                  /\ x \notin Range(path.relationships)}}

RECURSIVE PathsOfLength(_, _, _)
PathsOfLength(g, starts, hops) ==
    IF hops = 0
    THEN {[nodes |-> <<ref>>, relationships |-> <<>>] : ref \in starts}
    ELSE UNION {ExtendPath(g, path) : path \in PathsOfLength(g, starts, hops - 1)}

\* MATCH path = (e:Entity {text: $entity_text})-[*1..depth]-(connected) RETURN path
MatchPaths(g, entity_text, depth) ==
    UNION {PathsOfLength(g, {EntityRef(n) : n \in MatchEntity(g, entity_text)}, hops) :
               hops \in 1..depth}

\* Line 242 adds the tuple (text, dict(node)) to a set.  A tuple that holds a
\* dict has no hash, so the first node of the first path returned raises
\* TypeError; with no path returned the loop body never runs.
get_entity_subgraph(g, entity_text, depth) ==
    IF MatchPaths(g, entity_text, depth) = {}
    THEN Outcome(g, NoError, [nodes |-> <<>>, relationships |-> <<>>])
    ELSE Outcome(g, "TypeError", NoValue)

----------------------------------------------------------------------------
(* Neo4jGraphStore.get_statistics, clear_database, create_constraints,      *)
(* create_vector_index                                                      *)

\* MATCH (e:Entity) WITH count(e): an aggregation without grouping key gives
\* one row, also over no node at all
RowsAfterEntities(g) == {[entity_count |-> Cardinality(g.entityNodes)]}

\* MATCH (c:Chunk) WITH entity_count, count(c): one row per group of the rows
\* matched; without a Chunk node there is no row to group
RowsAfterChunks(g) ==
    LET matched == RowsAfterEntities(g) \X g.chunkNodes
    IN  {[entity_count |-> k, chunk_count |-> Cardinality({m \in matched : m[1].entity_count = k})] :
            k \in {m[1].entity_count : m \in matched}}

\* MATCH ()-[r]->() RETURN entity_count, chunk_count, count(r)
RowsReturned(g) ==
    LET matched == RowsAfterChunks(g) \X g.rels
    IN  {[entity_count |-> key[1], chunk_count |-> key[2],
          relationship_count |-> Cardinality({m \in matched :
              m[1].entity_count = key[1] /\ m[1].chunk_count = key[2]})] :
            key \in {<<m[1].entity_count, m[1].chunk_count>> : m \in matched}}

\* lines 277-284: result.single(), and the zeros returned without a record
get_statistics(g) ==
    LET rows == RowsReturned(g)
    IN  IF rows # {}
        THEN LET record == CHOOSE row \in rows : TRUE
             IN  Outcome(g, NoError, [entities |-> record.entity_count,
                                      chunks |-> record.chunk_count,
                                      relationships |-> record.relationship_count])
        ELSE Outcome(g, NoError, [entities |-> 0, chunks |-> 0, relationships |-> 0])

\* MATCH (c:Chunk) DETACH DELETE c: the chunks and their relationships only
clear_chunks(g) ==
    Outcome([g EXCEPT !.chunkNodes = {},
                      !.rels = {r \in @ : r.start.label # "Chunk" /\ r.end.label # "Chunk"}],
            NoError, NoValue)

\* MATCH (n) DETACH DELETE n
clear_database(g) ==
    Outcome([g EXCEPT !.entityNodes = {}, !.chunkNodes = {}, !.rels = {}], NoError, NoValue)

\* create_constraints that creates no constraint
create_no_constraints(g) == Outcome(g, NoError, NoValue)

\* CREATE CONSTRAINT entity_text / chunk_id IF NOT EXISTS
create_constraints(g) ==
    Outcome([g EXCEPT !.constraints = @ \cup {"entity_text", "chunk_id"}], NoError, NoValue)

\* line 71: DROP INDEX name IF EXISTS
drop_index(g, index_name) ==
    Outcome([g EXCEPT !.indexes = {x \in @ : x.name # index_name}], NoError, NoValue)

\* lines 74-84: CREATE VECTOR INDEX name IF NOT EXISTS
create_index(g, index_name, dimension) ==
    Outcome([g EXCEPT !.indexes = IF \E x \in @ : x.name = index_name
                                  THEN @
                                  ELSE @ \cup {[name |-> index_name, dimension |-> dimension,
                                                similarity_function |-> "cosine"]}],
            NoError, NoValue)

\* the two statements of create_vector_index, one after the other
create_vector_index(g, index_name, dimension) ==
    create_index(drop_index(g, index_name).g, index_name, dimension)

----------------------------------------------------------------------------
(* TextProcessor.clean_text *)

\* \s: the whitespace characters
Whitespace == {" ", "\t", "\n", "\r"}

\* \w: letters, digits and the underscore
isword(c) == c \in Letters \cup DigitChars \cup {"_"}

\* the punctuation that line 42 keeps: . , ! ? ; : ( ) - '
KeptPunctuation == {".", ",", "!", "?", ";", ":", "(", ")", "-", "'"}

\* the class [.,!?;:] of line 45
RunPunctuation == {".", ",", "!", "?", ";", ":"}

\* the characters of `text` at the positions given, in order
Keep(text, positions) ==
    LET RECURSIVE from(_)
        from(i) == IF i > Len(text) THEN <<>>
                   ELSE (IF i \in positions THEN <<text[i]>> ELSE <<>>) \o from(i + 1)
    IN  from(1)

\* line 39, re.sub(r'\s+', ' ', text): a space for every run of whitespace
CollapseWhitespace(text) ==
    Keep([i \in DOMAIN text |-> IF text[i] \in Whitespace THEN " " ELSE text[i]],
         {i \in DOMAIN text : ~(text[i] \in Whitespace /\ i > 1 /\ text[i - 1] \in Whitespace)})

\* line 42, re.sub(r'[^\w\s.,!?;:()\-\']', '', text)
RemoveSpecial(text) ==
    Keep(text, {i \in DOMAIN text : \/ isword(text[i])
                                    \/ text[i] \in Whitespace
                                    \/ text[i] \in KeptPunctuation})

\* re.sub(r'([.,!?;:])\1+', r'\1', text): of a run of one character of the
\* class repeated, one stays
CollapseRepeated(text) ==
    Keep(text, {i \in DOMAIN text : ~(/\ text[i] \in RunPunctuation
                                      /\ i < Len(text) /\ text[i + 1] = text[i])})

\* line 45, re.sub(r'([.,!?;:]){2,}', r'\1', text): of a run of two or more
\* characters of the class, the last one stays
CollapsePunctuation(text) ==
    Keep(text, {i \in DOMAIN text : ~(/\ text[i] \in RunPunctuation
                                      /\ i < Len(text) /\ text[i + 1] \in RunPunctuation)})

\* line 48, text.strip()
strip(text) ==
    LET inked == {i \in DOMAIN text : text[i] \notin Whitespace}
    IN  IF inked = {} THEN <<>>
        ELSE SubSeq(text, CHOOSE i \in inked : \A j \in inked : i <= j,
                          CHOOSE i \in inked : \A j \in inked : j <= i)

clean_text(text) ==
    strip(CollapsePunctuation(RemoveSpecial(CollapseWhitespace(text))))

----------------------------------------------------------------------------
(* TextProcessor.split_into_chunks: RecursiveCharacterTextSplitter with the  *)
(* separators of line 25, length_function = len, and the library's defaults  *)
(* keep_separator = True and strip_whitespace = True.                        *)

\* line 25: separators=["\n\n", "\n", ". ", " ", ""]
separators == << <<"\n", "\n">>, <<"\n">>, <<".", " ">>, <<" ">>, <<>> >>

\* re.split with the separator kept at the start of the piece after it: the
\* pieces of `text` from position `start` on, the next separator looked for
\* from position `from` on
RECURSIVE split_pieces(_, _, _, _)
split_pieces(text, separator, start, from) ==
    LET hits == {k \in from..(Len(text) - Len(separator) + 1) :
                    SubSeq(text, k, k + Len(separator) - 1) = separator}
    IN  IF hits = {}
        THEN << SubSeq(text, start, Len(text)) >>
        ELSE LET k == CHOOSE h \in hits : \A other \in hits : h <= other
             IN  << SubSeq(text, start, k - 1) >>
                     \o split_pieces(text, separator, k, k + Len(separator))

NotEmpty(piece) == piece # <<>>

\* _split_text_with_regex: the pieces that are not empty; with the separator
\* "" the characters of the text
split_text_with_regex(text, separator) ==
    IF separator = <<>>
    THEN [i \in DOMAIN text |-> <<text[i]>>]
    ELSE SelectSeq(split_pieces(text, separator, 1, 1), NotEmpty)

\* "".join(docs)
RECURSIVE join(_)
join(docs) == IF docs = <<>> THEN <<>> ELSE Head(docs) \o join(Tail(docs))

\* _join_docs that yields the empty text too
join_docs_or_empty(docs) == << strip(join(docs)) >>

\* _join_docs: the pieces joined and stripped, nothing when that is empty
join_docs(docs) == IF strip(join(docs)) = <<>> THEN <<>> ELSE << strip(join(docs)) >>

\* no piece leaves the current chunk
pop_nothing(current_doc, length, chunk_size, chunk_overlap) == current_doc

\* the while loop of _merge_splits: pieces leave the front of the current
\* chunk until what is left is no longer than the overlap and has room for
\* the next piece
RECURSIVE pop_overlap(_, _, _, _)
pop_overlap(current_doc, length, chunk_size, chunk_overlap) ==
    LET total == Len(join(current_doc))
    IN  IF \/ total > chunk_overlap
           \/ (total + length > chunk_size /\ total > 0)
        THEN pop_overlap(Tail(current_doc), length, chunk_size, chunk_overlap)
        ELSE current_doc

\* _merge_splits, with the separator "" that keep_separator = True joins by
RECURSIVE merge_splits_loop(_, _, _, _, _)
merge_splits_loop(splits, docs, current_doc, chunk_size, chunk_overlap) ==
    IF splits = <<>>
    THEN docs \o join_docs(current_doc)
    ELSE LET d == Head(splits)
             full == Len(join(current_doc)) + Len(d) > chunk_size
         IN  IF full /\ current_doc # <<>>
             THEN merge_splits_loop(Tail(splits), docs \o join_docs(current_doc),
                                    Append(pop_overlap(current_doc, Len(d), chunk_size,
                                                       chunk_overlap), d),
                                    chunk_size, chunk_overlap)
             ELSE merge_splits_loop(Tail(splits), docs, Append(current_doc, d),
                                    chunk_size, chunk_overlap)

merge_splits(splits, chunk_size, chunk_overlap) ==
    merge_splits_loop(splits, <<>>, <<>>, chunk_size, chunk_overlap)

\* the first separator of the list that occurs in the text ("" always does),
\* as its position in the list
first_separator(text, seps) ==
    CHOOSE i \in DOMAIN seps :
        /\ seps[i] = <<>> \/ IsSubstring(seps[i], text)
        /\ \A j \in 1..(i - 1) : ~(seps[j] = <<>> \/ IsSubstring(seps[j], text))

\* RecursiveCharacterTextSplitter._split_text
RECURSIVE split_text(_, _, _, _)
RECURSIVE split_text_loop(_, _, _, _, _, _)
split_text_loop(splits, good_splits, final_chunks, new_separators, chunk_size, chunk_overlap) ==
    IF splits = <<>>
    THEN final_chunks \o merge_splits(good_splits, chunk_size, chunk_overlap)
    ELSE LET piece == Head(splits)
         IN  IF Len(piece) < chunk_size
             THEN split_text_loop(Tail(splits), Append(good_splits, piece), final_chunks,
                                  new_separators, chunk_size, chunk_overlap)
             ELSE split_text_loop(Tail(splits), <<>>,
                                  final_chunks
                                      \o merge_splits(good_splits, chunk_size, chunk_overlap)
                                      \o (IF new_separators = <<>>
                                          THEN << piece >>
                                          ELSE split_text(piece, new_separators,
                                                          chunk_size, chunk_overlap)),
                                  new_separators, chunk_size, chunk_overlap)

split_text(text, seps, chunk_size, chunk_overlap) ==
    LET i == first_separator(text, seps)
    IN  split_text_loop(split_text_with_regex(text, seps[i]), <<>>, <<>>,
                        IF seps[i] = <<>> THEN <<>> ELSE SubSeq(seps, i + 1, Len(seps)),
                        chunk_size, chunk_overlap)

\* lines 52-63: text_splitter.create_documents([text]), as the texts of the
\* Documents it returns
split_into_chunks(text, chunk_size, chunk_overlap) ==
    split_text(text, separators, chunk_size, chunk_overlap)

----------------------------------------------------------------------------
(* The texts, file paths and raw relation types the model draws from. *)

Google ==
    <<"G", "o", "o", "g", "l", "e">>
LarryPage ==
    <<"L", "a", "r", "r", "y", " ", "P", "a", "g", "e">>
Stanford ==
    <<"S", "t", "a", "n", "f", "o", "r", "d">>
Nonexistent ==
    <<"n", "o", "n", "e", "x", "i", "s", "t", "e", "n", "t">>
TextA ==
    <<"G", "o", "o", "g", "l", "e", " ", "w", "a", "s", " ", "f", "o", "u",
    "n", "d", "e", "d", " ", "b", "y", " ", "L", "a", "r", "r", "y", " ", "P",
    "a", "g", "e", ".", " ", "L", "a", "r", "r", "y", " ", "P", "a", "g", "e",
    " ", "s", "t", "u", "d", "i", "e", "d", " ", "a", "t", " ", "S", "t", "a",
    "n", "f", "o", "r", "d", ".">>
TextB0 ==
    <<"L", "a", "r", "r", "y", " ", "P", "a", "g", "e", " ", "c", "o", "-",
    "f", "o", "u", "n", "d", "e", "d", " ", "G", "o", "o", "g", "l", "e">>
TextB1 ==
    <<"G", "o", "o", "g", "l", "e", " ", "1", "2", "3", " ", "S", "t", "a",
    "n", "f", "o", "r", "d">>
TextC ==
    <<"S", "t", "a", "n", "f", "o", "r", "d", " ", "v", "s", ".", " ", "G",
    "o", "o", "g", "l", "e">>
TextD ==
    <<"n", "o", " ", "n", "a", "m", "e", "s", " ", "h", "e", "r", "e">>
PathA ==
    <<"a", ".", "t", "x", "t">>
PathB ==
    <<"b", ".", "t", "x", "t">>
PathC ==
    <<"c", ".", "t", "x", "t">>
PathD ==
    <<"d", ".", "t", "x", "t">>
IBM ==
    <<"I", "B", "M">>
Intel ==
    <<"I", "n", "t", "e", "l">>
Oracle ==
    <<"O", "r", "a", "c", "l", "e">>
TextQ ==
    <<"I", "B", "M", ",", " ", "I", "n", "t", "e", "l", ",", " ", "O", "r", "a", "c", "l", "e", " ", "o", "r", " ", "G", "o", "o", "g", "l", "e", "?">>
TypeFounded ==
    <<"f", "o", "u", "n", "d", "e", "d">>
TypeCoFoundedBy ==
    <<"c", "o", "-", "f", "o", "u", "n", "d", "e", "d", " ", "b", "y">>
TypeCoFounded ==
    <<"c", "o", "-", "f", "o", "u", "n", "d", "e", "d">>
TypeDigits ==
    <<"1", "2", "3">>
TypeEmpty ==
    <<>>
TypeVs ==
    <<"v", "s", ".">>

Entity(text, label, start, end) == [text |-> text, label |-> label, start |-> start, end |-> end]
Relation(source, target, relation_type, context) ==
    [source |-> source, target |-> target, relation_type |-> relation_type, context |-> context]

\* a file on disk: its path and the chunk texts TextProcessor cuts its cleaned
\* text into
File(path, chunks) == [path |-> path, chunks |-> chunks]
FileA == File(PathA, <<TextA>>)
FileB == File(PathB, <<TextB0, TextB1>>)
FileC == File(PathC, <<TextC>>)
FileD == File(PathD, <<TextD>>)
Files == {FileA, FileB, FileC, FileD}

\* the text of a.txt once more, in a file of another path
PathE ==
    <<"e", ".", "t", "x", "t">>
FileE == File(PathE, <<TextA>>)

----------------------------------------------------------------------------
(* The extraction and embedding models, as deterministic stubs. *)

\* EntityExtractor.extract_entities
extract_entities(text) ==
    CASE text = TextA -> <<Entity(Google, "ORG", 0, 6), Entity(LarryPage, "PERSON", 22, 32),
                           Entity(Stanford, "ORG", 56, 64)>>
      [] text = TextB0 -> <<Entity(LarryPage, "PERSON", 0, 10), Entity(Google, "ORG", 22, 28)>>
      [] text = TextB1 -> <<Entity(Google, "PRODUCT", 0, 6), Entity(Stanford, "ORG", 11, 19)>>
      [] text = TextC -> <<Entity(Stanford, "ORG", 0, 8), Entity(Google, "ORG", 13, 19)>>
      [] text = TextQ -> <<Entity(IBM, "ORG", 0, 3), Entity(Intel, "ORG", 5, 10),
                           Entity(Oracle, "ORG", 12, 18), Entity(Google, "ORG", 22, 28)>>
      [] OTHER -> <<>>

\* EntityExtractor.extract_entity_relations
extract_entity_relations(text) ==
    CASE text = TextA -> <<Relation(LarryPage, Google, TypeFounded, "Google was founded by Larry Page.")>>
      [] text = TextB0 -> <<Relation(LarryPage, Google, TypeCoFounded, "Larry Page co-founded Google")>>
      [] text = TextB1 -> <<Relation(Google, Stanford, TypeDigits, "Google 123 Stanford")>>
      [] text = TextC -> <<Relation(Stanford, Google, TypeVs, "Stanford vs. Google")>>
      [] OTHER -> <<>>

\* a sentence of a parsed text (a spaCy Span): its text, its named entities and
\* the texts of its tokens tagged VERB, both in the order of the sentence
Sent(text, ents, verbs) == [text |-> text, ents |-> ents, verbs |-> verbs]

\* the last verb of the sentence
find_last_verb(sent, ent1, ent2) ==
    IF sent.verbs # <<>> THEN sent.verbs[Len(sent.verbs)] ELSE RELATED_TO

\* EntityExtractor._find_connecting_verb (lines 132-136): the first verb of the
\* sentence, whatever the two entities
find_connecting_verb(sent, ent1, ent2) ==
    IF sent.verbs # <<>> THEN Head(sent.verbs) ELSE RELATED_TO

\* lines 118-128: a relation for every entity of the sentence and every entity
\* after it
RECURSIVE sentence_relations(_, _)
sentence_relations(sent, i) ==
    IF i > Len(sent.ents)
    THEN <<>>
    ELSE [k \in 1..(Len(sent.ents) - i) |->
             LET ent1 == sent.ents[i]
                 ent2 == sent.ents[i + k]
                 verb == find_connecting_verb(sent, ent1, ent2)
             IN  Relation(ent1.text, ent2.text, IF verb # <<>> THEN verb ELSE RELATED_TO,
                          sent.text)]
         \o sentence_relations(sent, i + 1)

\* lines 110-130, on the sentences of the parsed text
RECURSIVE entity_relations(_)
entity_relations(sents) ==
    IF sents = <<>> THEN <<>>
    ELSE sentence_relations(Head(sents), 1) \o entity_relations(Tail(sents))

\* EntityExtractor.process_documents: the lists of all documents, concatenated
RECURSIVE process_documents_loop(_, _, _)
process_documents_loop(documents, all_entities, all_relations) ==
    IF documents = <<>>
    THEN <<all_entities, all_relations>>
    ELSE process_documents_loop(
             Tail(documents),
             all_entities \o extract_entities(Head(documents).page_content),
             all_relations \o extract_entity_relations(Head(documents).page_content))

process_documents(documents) == process_documents_loop(documents, <<>>, <<>>)

\* length of the vectors the embedding model returns
EmbeddingDimension == 2

\* EmbeddingGenerator.generate_embedding: a vector that depends on the text only
generate_embedding(text) == [i \in 1..EmbeddingDimension |-> (Len(text) + i) % 3]

\* EmbeddingGenerator.generate_document_embeddings
generate_document_embeddings(documents) ==
    [i \in DOMAIN documents |-> generate_embedding(documents[i].page_content)]

\* EmbeddingGenerator.get_embedding_dimension
get_embedding_dimension == Len(generate_embedding(<<"t", "e", "s", "t">>))

----------------------------------------------------------------------------
(* TextProcessor.process_text_file (lines 81-87) and                        *)
(* GraphRAGPipeline.process_text_file                                       *)

\* enumerate(chunks, 1): the chunks of a file numbered from 1
chunks_numbered_from_one(file) ==
    [i \in DOMAIN file.chunks |->
        [page_content |-> file.chunks[i],
         metadata |-> [source |-> file.path, chunk_id |-> i,
                       chunk_size |-> Len(file.chunks[i])]]]

\* the chunks of a file, each with the metadata set on it
text_processor_process_text_file(file) ==
    [i \in DOMAIN file.chunks |->
        [page_content |-> file.chunks[i],
         metadata |-> [source |-> file.path, chunk_id |-> i - 1,
                       chunk_size |-> Len(file.chunks[i])]]]

\* Steps 1 to 6 in order; an exception raised by a step ends the call there,
\* with what the earlier statements wrote left in the database.
process_text_file(g, file) ==
    LET documents == text_processor_process_text_file(file)
        extracted == process_documents(documents)
        entities == extracted[1]
        relations == extracted[2]
        embeddings == generate_document_embeddings(documents)
        schema == create_constraints(g)
        embedding_dim == get_embedding_dimension
        indexed == create_vector_index(schema.g, "chunk_embeddings", embedding_dim)
        stored_entities == store_entities(indexed.g, entities)
        stored_relations == store_relations(stored_entities.g, relations)
        stored_chunks == store_chunks_with_embeddings(stored_relations.g, documents, embeddings)
        linked == link_chunks_to_entities(stored_chunks.g, documents, entities)
    IN  IF stored_relations.raised # NoError
        THEN Interpolating(stored_relations.g, stored_relations.raised, NoValue,
                           stored_relations.interpolated)
        ELSE Interpolating(linked.g, NoError,
                           [file_path |-> file.path,
                            chunks_processed |-> stored_chunks.value,
                            entities_extracted |-> stored_entities.value,
                            relations_extracted |-> stored_relations.value,
                            embedding_dimension |-> embedding_dim,
                            status |-> "success"],
                           stored_relations.interpolated)

----------------------------------------------------------------------------
(* GraphRAGPipeline.query *)

\* get_entity_subgraph(self, entity_text, depth=2)
default_depth == 2

\* query_entities[:3]
top_entities == 3

\* lines 104-111
RECURSIVE query_subgraphs_loop(_, _, _)
query_subgraphs_loop(g, entities, subgraphs) ==
    IF entities = <<>>
    THEN Outcome(g, NoError, subgraphs)
    ELSE LET subgraph == get_entity_subgraph(g, Head(entities).text, default_depth)
         IN  IF subgraph.raised # NoError
             THEN Outcome(g, subgraph.raised, NoValue)
             ELSE query_subgraphs_loop(
                      g, Tail(entities),
                      IF subgraph.value.nodes # <<>>
                      THEN Append(subgraphs, [entity |-> Head(entities).text,
                                              subgraph |-> subgraph.value])
                      ELSE subgraphs)

\* the outcomes query can have, one for each result of the similarity search
query(g, query_text, k) ==
    LET query_embedding == generate_embedding(query_text)
        query_entities == extract_entities(query_text)
        subgraphs == query_subgraphs_loop(
                         g, SubSeq(query_entities, 1, Min(top_entities, Len(query_entities))), <<>>)
    IN  {IF results.raised # NoError
         THEN results
         ELSE IF subgraphs.raised # NoError
         THEN subgraphs
         ELSE Outcome(g, NoError,
                      [query |-> query_text,
                       similar_chunks |-> results.value,
                       query_entities |-> [i \in DOMAIN query_entities |->
                                              [text |-> query_entities[i].text,
                                               label |-> query_entities[i].label]],
                       entity_subgraphs |-> subgraphs.value]) :
            results \in similarity_search(g, query_embedding, k)}

----------------------------------------------------------------------------
(* The inputs of the store's methods when they are called directly. *)

SeqsUpTo(S, n) == UNION {[1..k -> S] : k \in 0..n}

EntityPool == {Entity(Google, "ORG", 0, 6), Entity(Google, "PRODUCT", 22, 28),
               Entity(LarryPage, "PERSON", 22, 32)}

RelationPool == {Relation(LarryPage, Google, TypeCoFoundedBy, "c1"),
                 Relation(LarryPage, Google, TypeDigits, "c1"),
                 Relation(LarryPage, Google, TypeEmpty, "c2"),
                 Relation(Google, LarryPage, TypeVs, "c1")}

EntityBatches == SeqsUpTo(EntityPool, MaxBatch)
RelationBatches == SeqsUpTo(RelationPool, MaxBatch)
SubgraphTexts == {Google, LarryPage, Stanford, Nonexistent}
QueryTexts == {TextA, TextD, TextQ}

Document(page_content, metadata) == [page_content |-> page_content, metadata |-> metadata]

\* two documents of one chunk id with different texts, and a document of
\* another chunk id
DocumentPool ==
    {Document(TextD, [source |-> PathD, chunk_id |-> 0, chunk_size |-> Len(TextD)]),
     Document(TextB1, [source |-> PathD, chunk_id |-> 0, chunk_size |-> Len(TextB1)]),
     Document(TextB0, [source |-> PathD, chunk_id |-> 1, chunk_size |-> Len(TextB0)])}

\* a vector of the dimension of the embedding model, and a shorter one
EmbeddingPool == {[i \in 1..EmbeddingDimension |-> 1], [i \in 1..(EmbeddingDimension - 1) |-> 1]}

DocumentBatches == SeqsUpTo(DocumentPool, MaxChunks)

\* the entity lists given to link_chunks_to_entities
LinkEntityLists == {<<Entity(Google, "ORG", 0, 6), Entity(LarryPage, "PERSON", 22, 32)>>,
                    <<Entity(LarryPage, "PERSON", 22, 32)>>}

\* the embeddings of the texts the model has, and a shorter vector
QueryVectors == {generate_embedding(text) : text \in {TextA, TextB0}}
                    \cup {[i \in 1..(EmbeddingDimension - 1) |-> 1]}

\* the characters of the raw texts: a space and a line end, a word character,
\* three punctuation marks that are kept, two of them of the class of line
\* 45, and a character that is not kept
RawChars == {" ", "\n", "a", ".", "!", "-", "@"}

\* the raw texts given to clean_text
RawTexts == UNION {[1..n -> RawChars] : n \in 0..MaxTextLen}

----------------------------------------------------------------------------
(* One call of GraphRAGPipeline.process_text_file, as the statements it runs. *)

Pipelines == 1..MaxPipelines

\* a pipeline that has not called process_text_file
Idle == [pc |-> "idle", file |-> File(<<>>, <<>>), documents |-> <<>>, entities |-> <<>>,
         relations |-> <<>>, embeddings |-> <<>>, i |-> 0, j |-> 0, found |-> "unmatched",
         steps |-> <<>>, wrote |-> {}, raised |-> NoError]

----------------------------------------------------------------------------
(* The state machine. *)

Init ==
    /\ entityNodes = {}
    /\ chunkNodes = {}
    /\ rels = {}
    /\ constraints = {}
    /\ indexes = {}
    /\ last = NoCall
    /\ runs = [p \in Pipelines |-> Idle]
    /\ drivers = 0
    /\ tmp_files = {}

\* a call returns or raises: the database is as the call left it
Leaving(op, args, outcome) ==
    /\ UNCHANGED runs
    /\ entityNodes' = outcome.g.entityNodes
    /\ chunkNodes' = outcome.g.chunkNodes
    /\ rels' = outcome.g.rels
    /\ constraints' = outcome.g.constraints
    /\ indexes' = outcome.g.indexes
    /\ last' = [op |-> op, args |-> args, raised |-> outcome.raised, value |-> outcome.value,
                interpolated |-> outcome.interpolated]

\* a call made on a pipeline or store that the caller holds
Called(op, args, outcome) ==
    /\ Leaving(op, args, outcome)
    /\ UNCHANGED <<drivers, tmp_files>>

StoreEntities(entities) == Called("store_entities", <<entities>>, store_entities(G, entities))

StoreRelations(relations) ==
    Called("store_relations", <<relations>>, store_relations(G, relations))

GetEntitySubgraph(entity_text, depth) ==
    Called("get_entity_subgraph", <<entity_text, depth>>, get_entity_subgraph(G, entity_text, depth))

GetStatistics == Called("get_statistics", <<>>, get_statistics(G))

ClearDatabase == Called("clear_database", <<>>, clear_database(G))

ProcessTextFile(file) == Called("process_text_file", <<file.path>>, process_text_file(G, file))

StoreChunksWithEmbeddings(documents, embeddings) ==
    Called("store_chunks_with_embeddings", <<documents, embeddings>>,
           store_chunks_with_embeddings(G, documents, embeddings))

LinkChunksToEntities(documents, entities) ==
    Called("link_chunks_to_entities", <<documents, entities>>,
           link_chunks_to_entities(G, documents, entities))

CreateIndex(dimension) ==
    Called("create_vector_index", <<dimension>>,
           create_vector_index(G, "chunk_embeddings", dimension))

SimilaritySearch(query_embedding, k) ==
    \E outcome \in similarity_search(G, query_embedding, k) :
        Called("similarity_search", <<query_embedding, k>>, outcome)

Query(query_text, k) ==
    \E outcome \in query(G, query_text, k) : Called("query", <<query_text, k>>, outcome)

\* TextProcessor.process_text_file line 84: the raw text read is cleaned
CleanText ==
    /\ last.op = "read"
    /\ Called("clean_text", <<last.value>>, Outcome(G, NoError, clean_text(last.value)))

\* the pipeline as its callers use it
Next ==
    \/ \E file \in Files : ProcessTextFile(file)
    \/ \E entity_text \in SubgraphTexts, depth \in 1..MaxDepth : GetEntitySubgraph(entity_text, depth)
    \/ GetStatistics
    \/ ClearDatabase

Spec == Init /\ [][Next]_vars

\* the entity and relation methods of the graph store, called directly
NextStore ==
    \/ \E entities \in EntityBatches : StoreEntities(entities)
    \/ \E relations \in RelationBatches : StoreRelations(relations)
    \/ \E entity_text \in SubgraphTexts, depth \in 1..MaxDepth : GetEntitySubgraph(entity_text, depth)
    \/ GetStatistics
    \/ ClearDatabase

SpecStore == Init /\ [][NextStore]_vars

\* ingestion and queries through the pipeline
QueryFiles == Files \cup {FileE}

NextQuery ==
    \/ \E file \in QueryFiles : ProcessTextFile(file)
    \/ \E query_text \in QueryTexts, k \in 1..MaxK : Query(query_text, k)
    \/ \E query_embedding \in QueryVectors, k \in 1..MaxK : SimilaritySearch(query_embedding, k)
    \/ ClearDatabase

SpecQuery == Init /\ [][NextQuery]_vars

\* the chunk methods of the graph store, called directly with aligned lists
NextChunks ==
    \/ CreateIndex(get_embedding_dimension)
    \/ \E documents \in DocumentBatches :
       \E embeddings \in [DOMAIN documents -> EmbeddingPool] :
           StoreChunksWithEmbeddings(documents, embeddings)
    \/ GetStatistics
    \/ ClearDatabase

SpecChunks == Init /\ [][NextChunks]_vars

\* entities and chunks stored and then linked, the chunks with the embeddings
\* of their texts
NextMentions ==
    \/ \E entities \in EntityBatches : StoreEntities(entities)
    \/ \E documents \in DocumentBatches :
           StoreChunksWithEmbeddings(documents, generate_document_embeddings(documents))
    \/ \E documents \in DocumentBatches, entities \in LinkEntityLists :
           LinkChunksToEntities(documents, entities)
    \/ ClearDatabase

SpecMentions == Init /\ [][NextMentions]_vars

\* TextProcessor.process_text_file lines 81-82: the raw text of a file has been
\* read
Read(raw_text) ==
    [op |-> "read", args |-> <<>>, raised |-> NoError, value |-> raw_text, interpolated |-> <<>>]

InitText ==
    /\ entityNodes = {}
    /\ chunkNodes = {}
    /\ rels = {}
    /\ constraints = {}
    /\ indexes = {}
    /\ \E raw_text \in RawTexts : last = Read(raw_text)
    /\ runs = [p \in Pipelines |-> Idle]
    /\ drivers = 0
    /\ tmp_files = {}

\* the text cleaning of TextProcessor: any raw text read, then cleaned
NextText == CleanText

SpecText == InitText /\ [][NextText]_vars

TypeStudied ==
    <<"s", "t", "u", "d", "i", "e", "d">>

\* the named entities of a sentence: the texts Google and Larry Page, each
\* any number of times, at the places of the sentence they are met at
SentEnts ==
    {[i \in DOMAIN texts |-> Entity(texts[i], IF texts[i] = Google THEN "ORG" ELSE "PERSON",
                                    12 * (i - 1), 12 * (i - 1) + Len(texts[i]))] :
        texts \in UNION {[1..n -> {Google, LarryPage}] : n \in 0..MaxSentEnts}}

SentVerbs == UNION {[1..n -> {TypeFounded, TypeStudied}] : n \in 0..MaxVerbs}

\* the parsed texts: one sentence, or that sentence and a second one
ParsedTexts ==
    {<<Sent(text, ents, verbs)>> :
        text \in {"s1", "s2"}, ents \in SentEnts, verbs \in SentVerbs}
    \cup {<<Sent("s1", ents, verbs),
            Sent("s3", <<Entity(LarryPage, "PERSON", 40, 50), Entity(Stanford, "ORG", 62, 70)>>,
                 <<TypeStudied>>)>> :
        ents \in SentEnts, verbs \in SentVerbs}

\* EntityExtractor.extract_entity_relations line 110: doc = self.nlp(text)
Parsed(sents) ==
    [op |-> "nlp", args |-> <<>>, raised |-> NoError, value |-> sents, interpolated |-> <<>>]

InitRelations ==
    /\ entityNodes = {}
    /\ chunkNodes = {}
    /\ rels = {}
    /\ constraints = {}
    /\ indexes = {}
    /\ \E sents \in ParsedTexts : last = Parsed(sents)
    /\ runs = [p \in Pipelines |-> Idle]
    /\ drivers = 0
    /\ tmp_files = {}

\* EntityExtractor.extract_entity_relations lines 111-130
ExtractEntityRelations ==
    /\ last.op = "nlp"
    /\ Called("extract_entity_relations", <<last.value>>,
              Outcome(G, NoError, entity_relations(last.value)))

NextRelations == ExtractEntityRelations

SpecRelations == InitRelations /\ [][NextRelations]_vars

\* the characters of the texts that are split: two word characters, a space
\* and a full stop
SplitChars == {"a", "b", " ", "."}

SplitTexts == UNION {[1..n -> SplitChars] : n \in 0..MaxSplitLen}

\* TextProcessor(chunk_size, chunk_overlap); the splitter refuses an overlap
\* larger than the chunk size
ChunkSizes == 1..MaxChunkSize
ChunkOverlaps(chunk_size) == 0..chunk_size

\* a TextProcessor(chunk_size, chunk_overlap) has a text in hand
ReadBy(chunk_size, chunk_overlap, text) ==
    [op |-> "read", args |-> <<chunk_size, chunk_overlap>>, raised |-> NoError,
     value |-> text, interpolated |-> <<>>]

InitSplit ==
    /\ entityNodes = {}
    /\ chunkNodes = {}
    /\ rels = {}
    /\ constraints = {}
    /\ indexes = {}
    /\ \E chunk_size \in ChunkSizes : \E chunk_overlap \in ChunkOverlaps(chunk_size) :
       \E text \in SplitTexts : last = ReadBy(chunk_size, chunk_overlap, text)
    /\ runs = [p \in Pipelines |-> Idle]
    /\ drivers = 0
    /\ tmp_files = {}

\* TextProcessor.split_into_chunks(text): Documents with empty metadata
SplitIntoChunks ==
    /\ last.op = "read"
    /\ \A chunks \in {split_into_chunks(last.value, last.args[1], last.args[2])} :
           Called("split_into_chunks", <<last.value, last.args[1], last.args[2]>>,
                  Outcome(G, NoError, [i \in DOMAIN chunks |-> Document(chunks[i], <<>>)]))

\* TextProcessor.process_text_file(file_path), lines 78-89: the text of the
\* file is cleaned, split, and each chunk given its metadata
ProcessFileChunks(file_path) ==
    /\ last.op = "read"
    /\ \A chunks \in {split_into_chunks(clean_text(last.value), last.args[1], last.args[2])} :
           Called("TextProcessor.process_text_file",
                  <<file_path, last.value, last.args[1], last.args[2]>>,
                  Outcome(G, NoError, text_processor_process_text_file(File(file_path, chunks))))

\* the chunking of TextProcessor: any text and configuration, then split
NextSplit ==
    \/ SplitIntoChunks
    \/ \E file_path \in {PathA, PathD} : ProcessFileChunks(file_path)

SpecSplit == InitSplit /\ [][NextSplit]_vars

----------------------------------------------------------------------------
(* The API endpoints of main.py.  Each request creates a pipeline of its own,
   and with it a Neo4j driver; an ingestion request first writes what it was
   sent to a temporary file.  A text is given as the chunks TextProcessor
   cuts it into, as in File. *)

\* str.endswith
endswith(string, suffix) ==
    /\ Len(suffix) <= Len(string)
    /\ SubSeq(string, Len(string) - Len(suffix) + 1, Len(string)) = suffix

DotTxt == <<".", "t", "x", "t">>

\* names that tempfile.NamedTemporaryFile(suffix='.txt') can give
TmpA == <<"/", "t", "m", "p", "/", "t", "m", "p", "a", ".", "t", "x", "t">>
TmpB == <<"/", "t", "m", "p", "/", "t", "m", "p", "b", ".", "t", "x", "t">>
TmpPaths == {TmpA, TmpB}

\* raise HTTPException(status_code=..., detail=...)
HTTPException(g, status_code, detail, interpolated) ==
    Interpolating(g, "HTTPException", [status_code |-> status_code, detail |-> detail],
                  interpolated)

\* what an endpoint leaves behind with its response: the drivers it opened
\* and did not close, the temporary files it wrote and did not unlink
Response(outcome, open, left) == [outcome |-> outcome, open |-> open, left |-> left]

\* try: get_pipeline(); result = ...; pipeline.close(); return
\* except Exception as e: raise HTTPException(500): close() is a statement of
\* the try block, after the call, and is not reached when the call raises
endpoint(result) ==
    IF result.raised = NoError
    THEN Response(result, 0, {})
    ELSE Response(HTTPException(result.g, 500, result.raised, result.interpolated), 1, {})

\* lines 104-125 and 145-165: the temporary file is processed under its own
\* path and unlinked after close(), inside the same try block
process_tmp_file(g, tmp_file_path, content) ==
    LET response == endpoint(process_text_file(g, File(tmp_file_path, content)))
    IN  IF response.open = 0 THEN response ELSE [response EXCEPT !.left = {tmp_file_path}]

\* POST /process/file
process_file(g, filename, content, tmp_file_path) ==
    IF ~endswith(filename, DotTxt)
    THEN Response(HTTPException(g, 400, "Only .txt files are supported", <<>>), 0, {})
    ELSE process_tmp_file(g, tmp_file_path, content)

\* POST /process/text
process_text(g, text, tmp_file_path) ==
    IF text = <<>>
    THEN Response(HTTPException(g, 400, "Text cannot be empty", <<>>), 0, {})
    ELSE process_tmp_file(g, tmp_file_path, text)

\* POST /query
query_graph(g, query_text, k) == {endpoint(result) : result \in query(g, query_text, k)}

\* GET /stats
api_get_statistics(g) == endpoint(get_statistics(g))

\* DELETE /clear
clear_graph(g) ==
    LET result == clear_database(g)
    IN  endpoint([result EXCEPT !.value = [message |-> "Knowledge graph cleared successfully"]])

\* the files uploaded and the texts posted
PathPdf == <<"a", ".", "p", "d", "f">>
Uploads == {FileA, FileC, File(PathPdf, <<TextA>>)}
PostedTexts == {FileA.chunks, FileC.chunks, <<>>}
AskedTexts == {TextA, TextQ}

\* an endpoint responds
Responded(op, args, response) ==
    /\ drivers + response.open <= MaxDrivers
    /\ Leaving(op, args, response.outcome)
    /\ drivers' = drivers + response.open
    /\ tmp_files' = tmp_files \cup response.left

\* the temporary file is created under a name that no file has
ProcessFile(upload) ==
    \E tmp_file_path \in TmpPaths \ tmp_files :
        Responded("process_file", <<upload.path, upload.chunks>>,
                  process_file(G, upload.path, upload.chunks, tmp_file_path))

ProcessText(text) ==
    \E tmp_file_path \in TmpPaths \ tmp_files :
        Responded("process_text", <<text>>, process_text(G, text, tmp_file_path))

QueryGraph(query_text, k) ==
    \E response \in query_graph(G, query_text, k) :
        Responded("query_graph", <<query_text, k>>, response)

ApiGetStatistics == Responded("get_statistics", <<>>, api_get_statistics(G))

ClearGraph == Responded("clear_graph", <<>>, clear_graph(G))

NextApi ==
    \/ \E upload \in Uploads : ProcessFile(upload)
    \/ \E text \in PostedTexts : ProcessText(text)
    \/ \E query_text \in AskedTexts, k \in 1..MaxK : QueryGraph(query_text, k)
    \/ ApiGetStatistics
    \/ ClearGraph

SpecApi == Init /\ [][NextApi]_vars

----------------------------------------------------------------------------
(* rag_hello_world_fastapi: find_most_similar_documents *)

\* np.argsort(similarities): the indices in ascending order of similarity;
\* the default sort is not stable, the order of equal values is numpy's
argsort(similarities) ==
    {order \in [DOMAIN similarities -> DOMAIN similarities] :
        /\ \A i, j \in DOMAIN order : i # j => order[i] # order[j]
        /\ \A i \in DOMAIN order :
               i > 1 => ScoreLeq(similarities[order[i - 1]], similarities[order[i]])}

\* a[start:] of Python: a negative start counts from the end, and no start
\* is out of range
slice_from(a, start) ==
    LET from == IF start < 0 THEN Max(start + Len(a), 0) ELSE Min(start, Len(a))
    IN  SubSeq(a, from + 1, Len(a))

\* a[::-1]
reversed(a) == [i \in DOMAIN a |-> a[Len(a) + 1 - i]]

\* lines 43-62
find_most_similar_documents(query_embedding, document_embeddings, documents, top_k) ==
    LET similarities == [i \in DOMAIN document_embeddings |->
                            Cosine(query_embedding, document_embeddings[i])]
    IN  {[i \in DOMAIN top_indices |->
             [document |-> documents[top_indices[i]],
              similarity |-> similarities[top_indices[i]]]] :
         top_indices \in {reversed(slice_from(order, -top_k)) : order \in argsort(similarities)}}

\* embeddings with a direction, as the sentence transformer gives
HelloVectors == {<<1, 0>>, <<1, 1>>, <<0, 1>>, <<-1, 1>>}

\* the knowledge bases: documents, by id, each with its embedding
HelloEmbeddings == UNION {[1..n -> HelloVectors] : n \in 0..MaxDocs}

\* SimpleRAG.retrieve lines 28-35: the query is embedded, the documents were
Embedded(query_embedding, document_embeddings, top_k) ==
    [op |-> "embed_text", args |-> <<top_k>>, raised |-> NoError,
     value |-> [query_embedding |-> query_embedding,
                document_embeddings |-> document_embeddings,
                documents |-> [i \in DOMAIN document_embeddings |-> i]],
     interpolated |-> <<>>]

InitHello ==
    /\ entityNodes = {}
    /\ chunkNodes = {}
    /\ rels = {}
    /\ constraints = {}
    /\ indexes = {}
    /\ \E query_embedding \in {<<1, 0>>, <<1, 1>>} : \E document_embeddings \in HelloEmbeddings :
       \E top_k \in 0..MaxTopK : last = Embedded(query_embedding, document_embeddings, top_k)
    /\ runs = [p \in Pipelines |-> Idle]
    /\ drivers = 0
    /\ tmp_files = {}

FindMostSimilarDocuments ==
    /\ last.op = "embed_text"
    /\ \E results \in find_most_similar_documents(last.value.query_embedding,
                                                  last.value.document_embeddings,
                                                  last.value.documents, last.args[1]) :
           Called("find_most_similar_documents",
                  <<last.value.query_embedding, last.value.document_embeddings,
                    last.value.documents, last.args[1]>>,
                  Outcome(G, NoError, results))

NextHello == FindMostSimilarDocuments

SpecHello == InitHello /\ [][NextHello]_vars

----------------------------------------------------------------------------
(* process_text_file statement by statement, by several pipelines at once.  *)
(* Each session.run is one transaction of the database.  A MERGE of a node  *)
(* first matches and then, having matched nothing, creates: two concurrent  *)
(* transactions can both match nothing.  With a uniqueness constraint on    *)
(* the merged property the database locks the property value from the match *)
(* to the end of the transaction.                                           *)

\* the files the concurrent pipelines are given
RunFiles == {FileA, FileC, FileD}

\* store_relations called before store_entities
AfterStepRelationsFirst ==
    [chunk |-> "extract", extract |-> "embed", embed |-> "create_constraints",
     create_constraints |-> "create_vector_index", create_vector_index |-> "store_relations",
     store_relations |-> "store_entities", store_entities |-> "store_chunks",
     store_chunks |-> "link", link |-> "done"]

\* lines 53-72: the steps of process_text_file, each with the step after it
AfterStep ==
    [chunk |-> "extract", extract |-> "embed", embed |-> "create_constraints",
     create_constraints |-> "create_vector_index", create_vector_index |-> "store_entities",
     store_entities |-> "store_relations", store_relations |-> "store_chunks",
     store_chunks |-> "link", link |-> "done"]

\* the steps that run statements on the database
DatabaseSteps == {"create_constraints", "create_vector_index", "store_entities",
                  "store_relations", "store_chunks", "link"}

\* the call of the next step
Enter(run, step) ==
    [run EXCEPT !.pc = step, !.i = 0, !.j = 0, !.found = "unmatched", !.steps = Append(@, step)]

\* the `for` loop of the step the run is in has no iteration left
LoopDone(run) ==
    CASE run.pc = "store_entities" -> run.i >= Len(run.entities)
      [] run.pc = "store_relations" -> run.i >= Len(run.relations)
      [] run.pc = "store_chunks" -> run.i >= Min(Len(run.documents), Len(run.embeddings))
      [] run.pc = "link" -> run.i >= Len(run.documents)
      [] OTHER -> FALSE

\* lines 183-184: the inner loop of link_chunks_to_entities is over, or its
\* entity is not in the text of the document
NoStatement(run) ==
    /\ run.pc = "link"
    /\ run.i < Len(run.documents)
    /\ \/ run.j >= Len(run.entities)
       \/ ~IsSubstring(run.entities[run.j + 1].text, run.documents[run.i + 1].page_content)

RECURSIVE Settle(_)
\* run up to the next statement: loops that are over return, and the next step
\* is called
Settle(run) ==
    IF LoopDone(run)
    THEN Settle(Enter(run, AfterStep[run.pc]))
    ELSE IF NoStatement(run)
    THEN Settle(IF run.j >= Len(run.entities)
                THEN [run EXCEPT !.i = @ + 1, !.j = 0]
                ELSE [run EXCEPT !.j = @ + 1])
    ELSE run

\* try / except: continue around the statement: the exception is swallowed
Swallowed(run, error) == Settle([run EXCEPT !.i = @ + 1])

\* an exception leaves process_text_file at the statement that raised it
Raised(run, error) == [run EXCEPT !.pc = "raised", !.raised = error]

\* CREATE (e:Entity {text: $text}) SET ...: what MERGE does having matched nothing
CreateEntityNode(g, entity) ==
    [g EXCEPT !.entityNodes = @ \cup
        {[text |-> entity.text, nid |-> Cardinality(MatchEntity(g, entity.text)),
          label |-> entity.label, start |-> entity.start, end |-> entity.end]}]

\* CREATE (c:Chunk {chunk_id: $chunk_id}) SET ...: what MERGE does having matched nothing
CreateChunkNode(g, doc, embedding, count) ==
    [g EXCEPT !.chunkNodes = @ \cup
        {[chunk_id |-> chunk_id_of(doc, count),
          nid |-> Cardinality(MatchChunk(g, chunk_id_of(doc, count))),
          text |-> doc.page_content, embedding |-> embedding,
          source |-> metadata_get(doc.metadata, "source", unknown),
          chunk_size |-> metadata_get(doc.metadata, "chunk_size", Len(doc.page_content))]}]

\* the property value another pipeline's MERGE holds locked
Locked(p, step, constraint, key) ==
    /\ constraint \in constraints
    /\ \E q \in Pipelines \ {p} :
           /\ runs[q].pc = step
           /\ runs[q].found # "unmatched"
           /\ key = IF step = "store_entities"
                    THEN runs[q].entities[runs[q].i + 1].text
                    ELSE chunk_id_of(runs[q].documents[runs[q].i + 1], runs[q].i)

\* a step of pipeline p that runs no statement
Local(p, run) ==
    /\ runs' = [runs EXCEPT ![p] = run]
    /\ UNCHANGED <<entityNodes, chunkNodes, rels, constraints, indexes, last, drivers, tmp_files>>

\* a statement of pipeline p, leaving the database as g
Statement(p, g, run) ==
    /\ runs' = [runs EXCEPT ![p] = run]
    /\ entityNodes' = g.entityNodes
    /\ chunkNodes' = g.chunkNodes
    /\ rels' = g.rels
    /\ constraints' = g.constraints
    /\ indexes' = g.indexes
    /\ UNCHANGED <<last, drivers, tmp_files>>

Begin(p, file) ==
    /\ runs[p].pc = "idle"
    /\ Local(p, Enter([runs[p] EXCEPT !.file = file], "chunk"))

\* line 53
Chunk(p) ==
    /\ runs[p].pc = "chunk"
    /\ Local(p, Enter([runs[p] EXCEPT !.documents = text_processor_process_text_file(runs[p].file)],
                      "extract"))

\* line 56
Extract(p) ==
    /\ runs[p].pc = "extract"
    /\ Local(p, Enter([runs[p] EXCEPT !.entities = process_documents(runs[p].documents)[1],
                                      !.relations = process_documents(runs[p].documents)[2]],
                      "embed"))

\* line 59
Embed(p) ==
    /\ runs[p].pc = "embed"
    /\ Local(p, Enter([runs[p] EXCEPT !.embeddings = generate_document_embeddings(runs[p].documents)],
                      "create_constraints"))

\* line 62
CreateConstraints(p) ==
    /\ runs[p].pc = "create_constraints"
    /\ Statement(p, create_constraints(G).g, Enter(runs[p], "create_vector_index"))

\* lines 63-64, the first statement of create_vector_index (line 71)
DropIndexStatement(p) ==
    /\ runs[p].pc = "create_vector_index"
    /\ runs[p].j = 0
    /\ Statement(p, drop_index(G, "chunk_embeddings").g, [runs[p] EXCEPT !.j = 1])

\* lines 63-64, the second statement of create_vector_index (lines 74-84)
CreateIndexStatement(p) ==
    /\ runs[p].pc = "create_vector_index"
    /\ runs[p].j = 1
    /\ Statement(p, create_index(G, "chunk_embeddings", get_embedding_dimension).g,
                 Settle(Enter(runs[p], "store_entities")))

\* line 67, the MERGE of lines 99-105 up to its match
MatchEntityStatement(p) ==
    /\ runs[p].pc = "store_entities"
    /\ runs[p].found = "unmatched"
    /\ \A entity \in {runs[p].entities[runs[p].i + 1]} :
           /\ ~Locked(p, "store_entities", "entity_text", entity.text)
           /\ Local(p, [runs[p] EXCEPT !.found = IF MatchEntity(G, entity.text) # {}
                                                 THEN "found" ELSE "absent"])

\* line 67, the MERGE of lines 99-105 from its match on, and count += 1
WriteEntityStatement(p) ==
    /\ runs[p].pc = "store_entities"
    /\ runs[p].found # "unmatched"
    /\ \A entity \in {runs[p].entities[runs[p].i + 1]} :
           Statement(p, IF runs[p].found = "found"
                        THEN MergeEntity(G, entity)
                        ELSE CreateEntityNode(G, entity),
                     Settle([runs[p] EXCEPT !.i = @ + 1, !.found = "unmatched",
                                            !.wrote = @ \cup {"Entity"}]))

\* line 68, one iteration of lines 121-134
RelationStatement(p) ==
    /\ runs[p].pc = "store_relations"
    /\ \A relation \in {runs[p].relations[runs[p].i + 1]} :
       \A type \in {safe_rel_type(relation.relation_type)} :
           IF ~IsIdentifier(type)
           THEN Local(p, Raised(runs[p], "CypherSyntaxError"))
           ELSE Statement(p, MergeRelation(G, type, relation),
                          Settle([runs[p] EXCEPT !.i = @ + 1, !.wrote = @ \cup {"Relation"}]))

\* line 69, the MERGE of lines 157-165 up to its match
MatchChunkStatement(p) ==
    /\ runs[p].pc = "store_chunks"
    /\ runs[p].found = "unmatched"
    /\ \A chunk_id \in {chunk_id_of(runs[p].documents[runs[p].i + 1], runs[p].i)} :
           /\ ~Locked(p, "store_chunks", "chunk_id", chunk_id)
           /\ Local(p, [runs[p] EXCEPT !.found = IF MatchChunk(G, chunk_id) # {}
                                                 THEN "found" ELSE "absent"])

\* line 69, the MERGE of lines 157-165 from its match on, and count += 1
WriteChunkStatement(p) ==
    /\ runs[p].pc = "store_chunks"
    /\ runs[p].found # "unmatched"
    /\ \A i \in {runs[p].i} :
           Statement(p, IF runs[p].found = "found"
                        THEN MergeChunk(G, runs[p].documents[i + 1], runs[p].embeddings[i + 1], i)
                        ELSE CreateChunkNode(G, runs[p].documents[i + 1],
                                             runs[p].embeddings[i + 1], i),
                     Settle([runs[p] EXCEPT !.i = @ + 1, !.found = "unmatched",
                                            !.wrote = @ \cup {"Chunk"}]))

\* line 72, the statement of lines 185-189
LinkStatement(p) ==
    /\ runs[p].pc = "link"
    /\ \A doc \in {runs[p].documents[runs[p].i + 1]} :
       \A entity \in {runs[p].entities[runs[p].j + 1]} :
           Statement(p, MergeRelationship(G, MENTIONS,
                            {ChunkRef(n) : n \in MatchChunk(G, chunk_id_of(doc, runs[p].i))},
                            {EntityRef(n) : n \in MatchEntity(G, entity.text)},
                            FALSE, NoContext),
                     Settle([runs[p] EXCEPT !.j = @ + 1, !.wrote = @ \cup {"MENTIONS"}]))

\* the database is not reachable when a statement is sent
StatementFails(p) ==
    /\ runs[p].pc \in DatabaseSteps
    /\ Local(p, Raised(runs[p], "ServiceUnavailable"))

\* a step of the call that pipeline p has begun
RunStep(p) ==
    \/ Chunk(p)
    \/ Extract(p)
    \/ Embed(p)
    \/ CreateConstraints(p)
    \/ DropIndexStatement(p)
    \/ CreateIndexStatement(p)
    \/ MatchEntityStatement(p)
    \/ WriteEntityStatement(p)
    \/ RelationStatement(p)
    \/ MatchChunkStatement(p)
    \/ WriteChunkStatement(p)
    \/ LinkStatement(p)
    \/ StatementFails(p)

NextRuns ==
    \E p \in Pipelines :
        \/ \E file \in RunFiles : Begin(p, file)
        \/ RunStep(p)

SpecRuns == Init /\ [][NextRuns]_vars

\* a query's similarity search, one statement, at any moment of the ingestions
SearchStatement ==
    \E asked \in {TextA, TextQ} : SimilaritySearch(generate_embedding(asked), MaxK)

\* the pipelines whose call has returned, and those whose call is running
Completed == {p \in Pipelines : runs[p].pc = "done"}
InProgress == {p \in Pipelines : runs[p].pc \notin {"idle", "done", "raised"}}

\* a call of process_text_file begun when no other call is running
BeginAlone(p, file) ==
    /\ InProgress = {}
    /\ Begin(p, file)

\* ingestions one after the other, each begun when no other is running, and
\* similarity searches at any moment of them
NextIndex ==
    \/ \E p \in Pipelines : \E file \in RunFiles : BeginAlone(p, file)
    \/ \E p \in Pipelines : RunStep(p)
    \/ SearchStatement

SpecIndex == Init /\ [][NextIndex]_vars

----------------------------------------------------------------------------
(* Properties. *)

EntityTexts == {n.text : n \in entityNodes}

\* the entity of a list that store_entities writes last for a text
LatestUpsert(entities, text) ==
    entities[CHOOSE i \in DOMAIN entities :
                 /\ entities[i].text = text
                 /\ \A j \in DOMAIN entities : j > i => entities[j].text # text]

\* the entities the step's call upserts (none when it is not store_entities)
UpsertedTexts(call) ==
    IF call.op = "store_entities" THEN {e.text : e \in Range(call.args[1])} ELSE {}

OneNodePerText == \A n, m \in entityNodes : n.text = m.text => n = m

LatestUpsertWins ==
    last.op = "store_entities" =>
        \A text \in UpsertedTexts(last) :
            LET e == LatestUpsert(last.args[1], text)
            IN  \E n \in entityNodes :
                    n.text = text /\ n.label = e.label /\ n.start = e.start /\ n.end = e.end

EntityKeptUntilReset ==
    last'.op # "clear_database" =>
        \A n \in entityNodes :
            /\ n.text \in EntityTexts'
            /\ n.text \notin UpsertedTexts(last') => n \in entityNodes'

\* C2: the store holds exactly one Entity node per text upserted since the last
\* clear_database, and the node carries the label and span of the most recent
\* upsert of that text: a store_entities call leaves one node per text it was
\* given, with the values of the last entity of that text in its list, and
\* until clear_database no call removes a node or rewrites a node of a text it
\* was not given.
C2_EntityDedupLatestWins ==
    [][OneNodePerText' /\ LatestUpsertWins' /\ EntityKeptUntilReset]_vars

\* two upserts of one text with different labels have left one node, with the
\* label of the second
C2_Witness ==
    /\ last.op = "store_entities"
    /\ Len(last.args[1]) = 2
    /\ last.args[1][1].text = last.args[1][2].text
    /\ last.args[1][1].label # last.args[1][2].label
    /\ \E n \in entityNodes : entityNodes = {n} /\ n.label = last.args[1][2].label

\* the exact numbers of Entity nodes, Chunk nodes and relationships
Counts(g) == [entities |-> Cardinality(g.entityNodes), chunks |-> Cardinality(g.chunkNodes),
              relationships |-> Cardinality(g.rels)]

\* C1: process_text_file run twice in a row on the same file leaves, after the
\* second run, the statistics the first run left: what get_statistics returns
\* is unchanged, and so are the numbers of Entity nodes, Chunk nodes and
\* relationships in the database.
C1_IngestionIdempotent ==
    [][(/\ last.op = "process_text_file"
        /\ last'.op = "process_text_file"
        /\ last'.args = last.args)
       => /\ get_statistics(G').value = get_statistics(G).value
          /\ Counts(G') = Counts(G)]_vars

\* a file of two chunks has been ingested, and its nodes and relationships are
\* in the database
C1_Witness ==
    /\ last.op = "process_text_file"
    /\ last.args = <<PathB>>
    /\ last.raised = NoError
    /\ last.value.chunks_processed = 2
    /\ get_statistics(G).value.relationships > 0

----------------------------------------------------------------------------

\* the (source, target, type) triple a relation is merged onto
Triple(relation) == <<relation.source, relation.target, safe_rel_type(relation.relation_type)>>
EdgeTriple(r) == <<r.start.key, r.end.key, r.type>>

\* the relations of a store_relations call whose statement ran: those before
\* the first statement the database refused
Executed(call) ==
    IF call.op # "store_relations"
    THEN <<>>
    ELSE LET relations == call.args[1]
             ran == {i \in DOMAIN relations :
                        \A j \in 1..i :
                            \E type \in {safe_rel_type(relations[j].relation_type)} :
                                IsIdentifier(type)}
         IN  SubSeq(relations, 1, Cardinality(ran))

TypedEdges == {r \in rels : r.type # MENTIONS}

OneEdgePerTriple == \A r1, r2 \in TypedEdges : EdgeTriple(r1) = EdgeTriple(r2) => r1 = r2

LatestContextWins ==
    \A executed \in {Executed(last)} :
        \A i \in DOMAIN executed :
            \A triple \in {Triple(executed[i])} :
                (/\ executed[i].source \in EntityTexts
                 /\ executed[i].target \in EntityTexts
                 /\ \A j \in DOMAIN executed : j > i => Triple(executed[j]) # triple)
                => \E r \in TypedEdges :
                       EdgeTriple(r) = triple /\ r.context = executed[i].context

EdgeKeptUntilReset ==
    last'.op # "clear_database" =>
        \A executed \in {Executed(last')} :
            \A r \in TypedEdges :
                /\ \E r2 \in TypedEdges' : EdgeTriple(r2) = EdgeTriple(r)
                /\ (\A i \in DOMAIN executed : Triple(executed[i]) # EdgeTriple(r)) => r \in rels'

\* C7: between existing entities there is at most one edge per (source, target,
\* sanitized type) triple, and its context is that of the most recently
\* upserted relation that maps to the triple: a store_relations call leaves,
\* for every relation it upserted between existing entities, an edge of the
\* relation's triple with the context of the last such relation in its list,
\* and until clear_database no call removes an edge or rewrites an edge of a
\* triple it did not upsert.
C7_RelationsCollapsePerTriple ==
    [][OneEdgePerTriple' /\ LatestContextWins' /\ EdgeKeptUntilReset]_vars

\* two relations with different raw types and contexts that map to one triple
\* have left one edge, with the context of the second
C7_Witness ==
    /\ last.op = "store_relations"
    /\ last.raised = NoError
    /\ Len(last.args[1]) = 2
    /\ Triple(last.args[1][1]) = Triple(last.args[1][2])
    /\ last.args[1][1].relation_type # last.args[1][2].relation_type
    /\ last.args[1][1].context # last.args[1][2].context
    /\ \E r \in rels : rels = {r} /\ r.context = last.args[1][2].context

----------------------------------------------------------------------------

EntityRefs == {EntityRef(n) : n \in entityNodes}

TypedEdgesJoinEntities == \A r \in TypedEdges : r.start \in EntityRefs /\ r.end \in EntityRefs

\* the relation names an entity text that has no Entity node
Dangling(relation) == relation.source \notin EntityTexts \/ relation.target \notin EntityTexts

\* C3: store_relations given a relation whose source or target text has no
\* Entity node raises no error and creates no edge for it, and with only such
\* relations it leaves the relationships, and the relationship count of
\* get_statistics, as they were; every typed edge joins two Entity nodes that
\* exist.
C3_DanglingRelationsDropped ==
    [][/\ TypedEdgesJoinEntities'
       /\ last'.op = "store_relations" =>
            \A relations \in {last'.args[1]} :
                (\E i \in DOMAIN relations : Dangling(relations[i])) =>
                    /\ last'.raised = NoError
                    /\ \A i \in DOMAIN relations :
                           Dangling(relations[i]) =>
                               ~\E r \in TypedEdges' : /\ r.start.key = relations[i].source
                                                       /\ r.end.key = relations[i].target
                    /\ (\A i \in DOMAIN relations : Dangling(relations[i])) =>
                           /\ rels' = rels
                           /\ get_statistics(G').value.relationships
                                  = get_statistics(G).value.relationships]_vars

----------------------------------------------------------------------------

\* C4: get_statistics returns the exact number of Entity nodes, of Chunk nodes
\* and of relationships of any type that the database holds.
C4_StatisticsExact ==
    last.op = "get_statistics" => last.raised = NoError /\ last.value = Counts(G)

----------------------------------------------------------------------------

CO_FOUNDED_BY == <<"C", "O", "_", "F", "O", "U", "N", "D", "E", "D", "_", "B", "Y">>
FOUNDED == <<"F", "O", "U", "N", "D", "E", "D">>

\* the edge type of a raw relation type: upper case with every space and hyphen
\* an underscore, or RELATED_TO when that is empty or starts with no letter
SanitizedType(raw) ==
    LET s == [i \in DOMAIN raw |-> IF raw[i] \in {" ", "-"} THEN "_" ELSE upper_char(raw[i])]
    IN  IF Len(s) = 0 \/ s[1] \notin Letters THEN RELATED_TO ELSE s

\* C5: the edge type used for a raw relation type is its sanitized type
\* ("co-founded by" gives CO_FOUNDED_BY, "123" and "" give RELATED_TO), and no
\* relation type makes store_relations raise: after a call, every relation
\* given between existing entities has its edge of the sanitized type.
C5_RelationTypeSanitized ==
    /\ safe_rel_type(TypeCoFoundedBy) = CO_FOUNDED_BY
    /\ safe_rel_type(TypeDigits) = RELATED_TO
    /\ safe_rel_type(TypeEmpty) = RELATED_TO
    /\ last.op = "store_relations" =>
         /\ last.raised = NoError
         /\ \A relation \in Range(last.args[1]) :
                /\ safe_rel_type(relation.relation_type) = SanitizedType(relation.relation_type)
                /\ ~Dangling(relation) =>
                       \E r \in TypedEdges :
                           EdgeTriple(r) = <<relation.source, relation.target,
                                             SanitizedType(relation.relation_type)>>

----------------------------------------------------------------------------

\* the identifier allow-list: letters, digits and underscore, a letter first
AllowListed(s) ==
    /\ Len(s) > 0
    /\ s[1] \in Letters
    /\ \A i \in DOMAIN s : s[i] \in Letters \cup DigitChars \cup {"_"}

\* C6: every edge type that store_relations writes into the body of a
\* statement is made of allow-listed characters only.
C6_EdgeTypeValidated ==
    \A i \in DOMAIN last.interpolated : AllowListed(last.interpolated[i])

----------------------------------------------------------------------------

\* the "text" property of the node a reference names
NodeText(ref) ==
    IF ref.label = "Entity"
    THEN ref.key
    ELSE (CHOOSE n \in chunkNodes : ChunkRef(n) = ref).text

Touches(r, ref) == r.start = ref \/ r.end = ref

RECURSIVE WithinHops(_, _)
\* the nodes at most `hops` relationships away from the nodes `refs`
WithinHops(refs, hops) ==
    IF hops = 0
    THEN refs
    ELSE LET near == WithinHops(refs, hops - 1)
         IN  near \cup {OtherEnd(r, ref) : <<r, ref>> \in {p \in rels \X near : Touches(p[1], p[2])}}

StartRefs(entity_text) == {EntityRef(n) : n \in MatchEntity(G, entity_text)}

\* the relationships on the paths of at most `depth` hops from the entity
EdgesWithin(entity_text, depth) ==
    {r \in rels : \E ref \in WithinHops(StartRefs(entity_text), depth - 1) : Touches(r, ref)}

HasIncidentEdge(entity_text) == EdgesWithin(entity_text, 1) # {}

\* a returned subgraph holds exactly these nodes, each once, and these edges
IsSubgraph(value, refs, edges) ==
    /\ Len(value.nodes) = Cardinality(refs)
    /\ {value.nodes[i].text : i \in DOMAIN value.nodes} = {NodeText(ref) : ref \in refs}
    /\ Range(value.relationships)
           = {[type |-> r.type, start |-> NodeText(r.start), end |-> NodeText(r.end)] : r \in edges}

\* C8: for an entity that exists and has an incident edge, get_entity_subgraph
\* returns normally, with each node within `depth` hops exactly once in its
\* node list and the edges of those paths in its edge list.
C8_SubgraphOfExistingEntity ==
    (/\ last.op = "get_entity_subgraph"
     /\ HasIncidentEdge(last.args[1]))
    => /\ last.raised = NoError
       /\ IsSubgraph(last.value, WithinHops(StartRefs(last.args[1]), last.args[2]),
                     EdgesWithin(last.args[1], last.args[2]))

\* C9: get_entity_subgraph at depth 1 returns only the nodes directly connected
\* to the entity, its nodes and edges are among those returned at depth 2,
\* which also holds the second-hop nodes, and for a text that has no Entity
\* node the nodes and relationships returned are empty.
C9_SubgraphDepthBound ==
    \A entity_text \in SubgraphTexts :
        LET one == get_entity_subgraph(G, entity_text, 1)
            two == get_entity_subgraph(G, entity_text, 2)
        IN  /\ one.raised = NoError
            /\ two.raised = NoError
            /\ IsSubgraph(one.value, WithinHops(StartRefs(entity_text), 1),
                          EdgesWithin(entity_text, 1))
            /\ Range(one.value.nodes) \subseteq Range(two.value.nodes)
            /\ Range(one.value.relationships) \subseteq Range(two.value.relationships)
            /\ {NodeText(ref) : ref \in WithinHops(StartRefs(entity_text), 2)}
                   \subseteq {two.value.nodes[i].text : i \in DOMAIN two.value.nodes}
            /\ MatchEntity(G, entity_text) = {} =>
                   two.value = [nodes |-> <<>>, relationships |-> <<>>]

\* C10: ingesting the file of text A into an empty database (entities Google,
\* Larry Page and Stanford, relation Larry Page -founded-> Google) leaves
\* get_statistics reporting 3 entities and get_entity_subgraph("Larry Page", 1)
\* holding the node Google and the FOUNDED edge from Larry Page to Google.
C10_EndToEndIngestion ==
    [][(/\ entityNodes = {} /\ chunkNodes = {} /\ rels = {}
        /\ last'.op = "process_text_file"
        /\ last'.args = <<PathA>>)
       => /\ last'.raised = NoError
          /\ get_statistics(G').value.entities = 3
          /\ \A subgraph \in {get_entity_subgraph(G', LarryPage, 1)} :
                 /\ subgraph.raised = NoError
                 /\ \E i \in DOMAIN subgraph.value.nodes : subgraph.value.nodes[i].text = Google
                 /\ [type |-> FOUNDED, start |-> LarryPage, end |-> Google]
                        \in Range(subgraph.value.relationships)]_vars

----------------------------------------------------------------------------

StepOrder == <<"chunk", "extract", "embed", "create_constraints", "create_vector_index",
               "store_entities", "store_relations", "store_chunks", "link", "done">>

IsPrefix(s, t) == Len(s) <= Len(t) /\ \A i \in DOMAIN s : s[i] = t[i]

\* the step a run is in, or was in when it raised
CurrentStep(run) == run.steps[Len(run.steps)]

MentionEdges == {r \in rels : r.type = MENTIONS}

\* the run has called create_constraints and create_vector_index, and both
\* have returned; the constraints, which no statement drops, exist from then on
SchemaSetUp(run) ==
    /\ {"create_constraints", "create_vector_index"} \subseteq Range(run.steps)
    /\ run.pc \notin {"create_constraints", "create_vector_index"}
    /\ {"entity_text", "chunk_id"} \subseteq constraints

\* the entities and the chunks of a run are in the database
EntitiesStored(run) == \A k \in DOMAIN run.entities : MatchEntity(G, run.entities[k].text) # {}
ChunksStored(run) ==
    \A k \in DOMAIN run.documents : MatchChunk(G, chunk_id_of(run.documents[k], k - 1)) # {}

\* C11: the steps of one call of process_text_file are called in the order
\* chunk, extract, embed, create_constraints, create_vector_index,
\* store_entities, store_relations, store_chunks, link, done; a statement that
\* changes nodes or relationships runs only in a call whose schema setup has
\* returned, a typed relationship is merged only in store_relations with the
\* entities of the call stored, and a MENTIONS relationship only in link with
\* the entities and the chunks of the call stored.
C11_IngestionStepOrder ==
    [][\A p \in Pipelines :
          runs'[p] # runs[p] =>
              /\ IsPrefix(runs'[p].steps, StepOrder)
              /\ IsPrefix(runs[p].steps, runs'[p].steps)
              /\ <<entityNodes, chunkNodes, rels>>' # <<entityNodes, chunkNodes, rels>> =>
                     /\ SchemaSetUp(runs[p])
                     /\ CurrentStep(runs[p]) \in {"store_entities", "store_relations",
                                                  "store_chunks", "link"}
              /\ TypedEdges' # TypedEdges =>
                     CurrentStep(runs[p]) = "store_relations" /\ EntitiesStored(runs[p])
              /\ MentionEdges' # MentionEdges =>
                     /\ CurrentStep(runs[p]) = "link"
                     /\ EntitiesStored(runs[p])
                     /\ ChunksStored(runs[p])]_vars

\* a call on the file of text A has returned, having written nodes of both
\* labels and relationships of both kinds
C11_Witness ==
    \E p \in Pipelines :
        /\ runs[p].pc = "done"
        /\ runs[p].file = FileA
        /\ runs[p].steps = StepOrder
        /\ runs[p].wrote = {"Entity", "Relation", "Chunk", "MENTIONS"}
        /\ MentionEdges # {}
        /\ TypedEdges # {}

----------------------------------------------------------------------------

\* the statement a run is at is a store_relations statement whose relationship
\* type the database does not parse
AtMalformedType(run) ==
    /\ run.pc = "store_relations"
    /\ ~IsIdentifier(safe_rel_type(run.relations[run.i + 1].relation_type))

\* the entities a run has merged so far
EntitiesMerged(run) ==
    IF "store_relations" \in Range(run.steps)
    THEN Range(run.entities)
    ELSE IF "store_entities" \in Range(run.steps)
    THEN {run.entities[k] : k \in 1..run.i}
    ELSE {}

\* C12: when a step of process_text_file fails, the call ends there with the
\* error of that step: it runs no later step and repeats none, the failing step
\* undoes nothing, and what the steps before it wrote stays in the database.
C12_AbortWithoutRollback ==
    [][\A p \in Pipelines :
          /\ runs[p].pc = "raised" => runs'[p] = runs[p]
          /\ (AtMalformedType(runs[p]) /\ runs'[p] # runs[p]) =>
                 runs'[p].pc = "raised"
          /\ (runs[p].pc # "raised" /\ runs'[p].pc = "raised") =>
                 /\ runs'[p].raised \in {"CypherSyntaxError", "ServiceUnavailable"}
                 /\ runs'[p].raised = "CypherSyntaxError" => AtMalformedType(runs[p])
                 /\ runs'[p].steps = runs[p].steps
                 /\ G' = G
          /\ runs'[p].pc = "raised" =>
                 \A entity \in EntitiesMerged(runs'[p]) : MatchEntity(G', entity.text) # {}]_vars

\* the call on the file of text C has raised in store_relations, after its two
\* entities were stored
C12_Witness ==
    \E p \in Pipelines :
        /\ runs[p].pc = "raised"
        /\ runs[p].raised = "CypherSyntaxError"
        /\ runs[p].file = FileC
        /\ CurrentStep(runs[p]) = "store_relations"
        /\ MatchEntity(G, Stanford) # {}
        /\ MatchEntity(G, Google) # {}
        /\ chunkNodes = {}

----------------------------------------------------------------------------

\* C13: in every interleaving of the statements of the pipelines, the database
\* holds at most one Entity node for a text and at most one Chunk node for a
\* chunk id, and exactly one for every entity and chunk of a call that has
\* returned.
C13_ConcurrentUpsertsConverge ==
    /\ \A n \in entityNodes : Cardinality(MatchEntity(G, n.text)) = 1
    /\ \A n \in chunkNodes : Cardinality(MatchChunk(G, n.chunk_id)) = 1
    /\ \A p \in Pipelines :
           runs[p].pc = "done" => EntitiesStored(runs[p]) /\ ChunksStored(runs[p])

\* two pipelines are merging the same entity text at once: one has matched no
\* node and not yet created it, the other has not matched yet
C13_Witness ==
    \E p \in Pipelines : \E q \in Pipelines \ {p} :
        /\ runs[p].pc = "store_entities"
        /\ runs[q].pc = "store_entities"
        /\ runs[p].found = "absent"
        /\ runs[q].found = "unmatched"
        /\ runs[p].entities[runs[p].i + 1].text = runs[q].entities[runs[q].i + 1].text

----------------------------------------------------------------------------

\* the first three entities extracted from a query text
TopEntities(query_text) ==
    SubSeq(extract_entities(query_text), 1, Min(3, Len(extract_entities(query_text))))

\* those of them that have a node and a relationship in the graph
PresentEntities(query_text) ==
    LET Present(entity) == HasIncidentEdge(entity.text)
    IN  SelectSeq(TopEntities(query_text), Present)

\* C14: a query that the similarity search lets through returns, and its
\* entity_subgraphs are the subgraphs (depth 2) of those of the first three
\* entities extracted from the query text that have a non-empty subgraph, in
\* extraction order, and of no other entity.
C14_QuerySubgraphSelection ==
    (last.op = "query" /\ last.raised # "ClientError") =>
        /\ last.raised = NoError
        /\ \A present \in {PresentEntities(last.args[1])} :
               /\ Len(last.value.entity_subgraphs) = Len(present)
               /\ \A i \in DOMAIN present :
                      /\ last.value.entity_subgraphs[i].entity = present[i].text
                      /\ IsSubgraph(last.value.entity_subgraphs[i].subgraph,
                                    WithinHops(StartRefs(present[i].text), default_depth),
                                    EdgesWithin(present[i].text, default_depth))

----------------------------------------------------------------------------

\* the MENTIONS relationships from the chunk of an id to the entity of a text
Mentions(edges, chunk_id, entity_text) ==
    {r \in edges : /\ r.type = MENTIONS
                   /\ r.start.label = "Chunk" /\ r.start.key = chunk_id
                   /\ r.end.label = "Entity" /\ r.end.key = entity_text}

\* the document is in the database as a Chunk node of its id and its text
Persisted(doc, position) ==
    \E n \in MatchChunk(G, chunk_id_of(doc, position)) : n.text = doc.page_content

\* `part` occurs in `text`
Contains(text, part) ==
    \E k \in 0..(Len(text) - Len(part)) : SubSeq(text, k + 1, k + Len(part)) = part

\* C15: link_chunks_to_entities raises nothing and changes no node; for every
\* chunk and entity given that are in the database, with the entity's text a
\* substring of the chunk's text, there is afterwards exactly one MENTIONS
\* relationship from the chunk to the entity; every relationship the call adds
\* is such a MENTIONS relationship of a pair given; and the same call again
\* adds nothing.
C15_MentionEdges ==
    [][last'.op = "link_chunks_to_entities" =>
          \A documents \in {last'.args[1]} : \A entities \in {last'.args[2]} :
              /\ last'.raised = NoError
              /\ entityNodes' = entityNodes /\ chunkNodes' = chunkNodes
              /\ rels \subseteq rels'
              /\ \A i \in DOMAIN documents : \A j \in DOMAIN entities :
                     (/\ Persisted(documents[i], i - 1)
                      /\ MatchEntity(G, entities[j].text) # {}
                      /\ Contains(documents[i].page_content, entities[j].text))
                     => Cardinality(Mentions(rels', chunk_id_of(documents[i], i - 1),
                                             entities[j].text)) = 1
              /\ \A r \in rels' \ rels :
                     \E i \in DOMAIN documents : \E j \in DOMAIN entities :
                         /\ r \in Mentions(rels', chunk_id_of(documents[i], i - 1), entities[j].text)
                         /\ Contains(documents[i].page_content, entities[j].text)
              /\ link_chunks_to_entities(G', documents, entities).g = G']_vars

\* two chunks and two entities were linked: the chunk that names both entities
\* has its two MENTIONS relationships, the chunk that names none has none
C15_Witness ==
    /\ last.op = "link_chunks_to_entities"
    /\ Len(last.args[1]) = 2
    /\ Len(last.args[2]) = 2
    /\ \E n \in chunkNodes : n.text = TextB0
    /\ \E n \in chunkNodes : n.text = TextD
    /\ Cardinality(MentionEdges) = 2
    /\ \A r \in MentionEdges : r.start.key = PathD \o <<"_", "1">>

----------------------------------------------------------------------------

\* the ids of the Chunk nodes
ChunkIds(nodes) == {n.chunk_id : n \in nodes}

\* the positions of the documents given that are written under a chunk id
Writes(documents, embeddings, chunk_id) ==
    {i \in 1..Min(Len(documents), Len(embeddings)) : chunk_id_of(documents[i], i - 1) = chunk_id}

\* the greatest of a non-empty set of positions
Latest(positions) == CHOOSE i \in positions : \A j \in positions : j <= i

\* C16: the store holds one Chunk node per chunk id at all times; a call of
\* store_chunks_with_embeddings leaves every chunk whose id it was not given as
\* it is, adds a node for every id given that had none, and leaves the node of
\* every id given, new or not, with the text, embedding, source and size of the
\* last document given under that id.
C16_ChunkUpsertKeyedById ==
    [][last'.op = "store_chunks_with_embeddings" =>
          \A documents \in {last'.args[1]} : \A embeddings \in {last'.args[2]} :
              /\ \A n \in chunkNodes' : \A m \in chunkNodes' : n.chunk_id = m.chunk_id => n = m
              /\ ChunkIds(chunkNodes') =
                     ChunkIds(chunkNodes) \cup
                         {chunk_id_of(documents[i], i - 1) : i \in 1..Min(Len(documents), Len(embeddings))}
              /\ \A n \in chunkNodes' :
                     IF Writes(documents, embeddings, n.chunk_id) = {}
                     THEN n \in chunkNodes
                     ELSE \A i \in {Latest(Writes(documents, embeddings, n.chunk_id))} :
                              /\ n.text = documents[i].page_content
                              /\ n.embedding = embeddings[i]
                              /\ n.source = documents[i].metadata.source
                              /\ n.chunk_size = documents[i].metadata.chunk_size]_vars

\* one call gave a chunk id twice, first with one text and then with another
\* text and another embedding: the store holds one node of that id, with the
\* second text and embedding
C16_Witness ==
    /\ last.op = "store_chunks_with_embeddings"
    /\ Len(last.args[1]) = 2
    /\ last.args[1][1].page_content = TextD /\ last.args[1][2].page_content = TextB1
    /\ last.args[2][1] # last.args[2][2]
    /\ chunk_id_of(last.args[1][1], 0) = chunk_id_of(last.args[1][2], 1)
    /\ \E n \in chunkNodes : /\ n.chunk_id = chunk_id_of(last.args[1][1], 0)
                             /\ n.text = TextB1 /\ n.embedding = last.args[2][2]
    /\ Cardinality(chunkNodes) = 1

----------------------------------------------------------------------------

\* the dimension D of the store: that of the embedding model, which
\* process_text_file gives to create_vector_index
D == get_embedding_dimension

\* C17: a call of store_chunks_with_embeddings with an embedding whose length
\* is not D raises DimensionMismatchError, and no Chunk node carries an
\* embedding whose length is not D.
C17_DimensionCheckOnChunkUpsert ==
    /\ (/\ last.op = "store_chunks_with_embeddings"
        /\ \E i \in DOMAIN last.args[2] : Len(last.args[2][i]) # D)
       => last.raised = "DimensionMismatchError"
    /\ \A n \in chunkNodes : Len(n.embedding) = D

----------------------------------------------------------------------------

\* two scores are equal
SameScore(s, t) == ScoreLeq(s, t) /\ ScoreLeq(t, s)

\* the rows are rows of Chunk nodes of the database, each with the id, text,
\* source and score of its node, and no node twice
RowsOfChunks(rows, query_embedding) ==
    /\ \A i \in DOMAIN rows :
           \E n \in chunkNodes :
               /\ rows[i].chunk_id = n.chunk_id /\ rows[i].text = n.text
               /\ rows[i].source = n.source
               /\ SameScore(rows[i].score, Cosine(n.embedding, query_embedding))
    /\ \A i, j \in DOMAIN rows : rows[i].chunk_id = rows[j].chunk_id => i = j

\* the chunk nodes, other than n, that score as high as n for the query vector
Rivals(n, query_embedding) ==
    {m \in chunkNodes \ {n} : ScoreLeq(Cosine(n.embedding, query_embedding),
                                       Cosine(m.embedding, query_embedding))}

\* C18 as stated: a similarity search that returns, returns at most k rows of
\* chunks in order of non-increasing score, and every stored chunk whose
\* embedding equals the query vector is the first row, with the greatest
\* score of the rows.
C18_SimilaritySearchAsStated ==
    (last.op = "similarity_search" /\ last.raised = NoError) =>
        \A query_embedding \in {last.args[1]} : \A rows \in {last.value} :
            /\ Len(rows) <= last.args[2]
            /\ RowsOfChunks(rows, query_embedding)
            /\ DescendingScores(rows)
            /\ \A n \in chunkNodes :
                   n.embedding = query_embedding =>
                       /\ rows # <<>>
                       /\ rows[1].chunk_id = n.chunk_id
                       /\ \A i \in DOMAIN rows : ScoreLeq(rows[i].score, rows[1].score)

\* C18, amended: a similarity search that returns, returns at most k rows of
\* chunks in order of non-increasing score; when the query vector equals the
\* embedding of a stored chunk, the first row has the score of that chunk,
\* which is the greatest score of the rows, and the first row is that chunk
\* when no other stored chunk scores as high.
C18_SimilaritySearch ==
    (last.op = "similarity_search" /\ last.raised = NoError) =>
        \A query_embedding \in {last.args[1]} : \A rows \in {last.value} :
            /\ Len(rows) <= last.args[2]
            /\ RowsOfChunks(rows, query_embedding)
            /\ DescendingScores(rows)
            /\ \A n \in chunkNodes :
                   n.embedding = query_embedding =>
                       /\ rows # <<>>
                       /\ SameScore(rows[1].score, Cosine(n.embedding, query_embedding))
                       /\ \A i \in DOMAIN rows : ScoreLeq(rows[i].score, rows[1].score)
                       /\ Rivals(n, query_embedding) = {} => rows[1].chunk_id = n.chunk_id

\* a search with k = 2 for the embedding of the one chunk of a.txt returned
\* that chunk first and then a chunk of a lower score
C18_Witness ==
    /\ last.op = "similarity_search" /\ last.raised = NoError
    /\ last.args[1] = generate_embedding(TextA) /\ last.args[2] = 2
    /\ Len(last.value) = 2
    /\ last.value[1].chunk_id = PathA \o <<"_", "0">>
    /\ ~ScoreLeq(last.value[1].score, last.value[2].score)
    /\ \E n \in chunkNodes : n.embedding = last.args[1] /\ Rivals(n, last.args[1]) = {}

----------------------------------------------------------------------------

\* C19: a call other than clear_database removes no Entity node: every Entity
\* node there was is still there, under its text; and right after
\* clear_database the database holds no node and no relationship.
C19_OnlyResetRemoves ==
    [][/\ last'.op # "clear_database" =>
              \A n \in entityNodes : \E m \in entityNodes' : m.text = n.text /\ m.nid = n.nid
       /\ last'.op = "clear_database" =>
              entityNodes' = {} /\ chunkNodes' = {} /\ rels' = {}]_vars

\* clear_database has emptied a database that a file had been ingested into
\* (the vector index that the ingestion created is still there)
C19_Witness ==
    /\ last.op = "clear_database"
    /\ indexes # {}
    /\ entityNodes = {} /\ chunkNodes = {} /\ rels = {}

----------------------------------------------------------------------------

\* C20: the text clean_text returns has no two whitespace characters in a
\* row, has no whitespace at its start or end, and is made of word
\* characters, whitespace and the punctuation . , ! ? ; : ( ) - ' only.
C20_CleanedTextNormalized ==
    last.op = "clean_text" =>
        \A cleaned \in {last.value} :
            /\ \A i \in DOMAIN cleaned :
                   i > 1 => ~(cleaned[i - 1] \in Whitespace /\ cleaned[i] \in Whitespace)
            /\ cleaned # <<>> =>
                   cleaned[1] \notin Whitespace /\ cleaned[Len(cleaned)] \notin Whitespace
            /\ \A i \in DOMAIN cleaned :
                   \/ isword(cleaned[i])
                   \/ cleaned[i] \in Whitespace
                   \/ cleaned[i] \in {".", ",", "!", "?", ";", ":", "(", ")", "-", "'"}

----------------------------------------------------------------------------

\* the text as it reaches line 45: whitespace collapsed, special characters
\* removed
BeforePunctuation(raw_text) == RemoveSpecial(CollapseWhitespace(raw_text))

\* the positions of `text` that are not followed by the same punctuation mark
LastOfSameMark(text) ==
    {i \in DOMAIN text : ~(/\ text[i] \in {".", ",", "!", "?", ";", ":", "(", ")", "-", "'"}
                           /\ i < Len(text) /\ text[i + 1] = text[i])}

\* the positions of `text` that are not followed by a mark of . , ! ? ; : while
\* holding one themselves
LastOfMarks(text) ==
    {i \in DOMAIN text : ~(/\ text[i] \in {".", ",", "!", "?", ";", ":"}
                           /\ i < Len(text)
                           /\ text[i + 1] \in {".", ",", "!", "?", ";", ":"})}

\* C21 as stated: the cleaned text is the text before line 45 with every run of
\* one punctuation mark repeated replaced by one occurrence of the mark, and
\* with adjacent marks that differ all kept (then trimmed).
C21_PunctuationCollapseAsStated ==
    last.op = "clean_text" =>
        \A text \in {BeforePunctuation(last.args[1])} :
            last.value = strip(Keep(text, LastOfSameMark(text)))

\* C21, amended: the cleaned text is the text before line 45 with every run of
\* two or more adjacent marks of . , ! ? ; : (the same mark or not) replaced
\* by the last mark of the run (then trimmed); the marks ( ) - ' are left as
\* they are, repeated or not.
C21_PunctuationCollapse ==
    last.op = "clean_text" =>
        \A text \in {BeforePunctuation(last.args[1])} :
            last.value = strip(Keep(text, LastOfMarks(text)))

\* a text with a run of two different marks and a repeated hyphen was
\* cleaned: the last mark of the run is left, and both hyphens
C21_Witness ==
    /\ last.op = "clean_text"
    /\ last.args[1] = <<"a", ".", "!", "-", "-">>
    /\ last.value = <<"a", "!", "-", "-">>

----------------------------------------------------------------------------

\* a TextProcessor has chunked a text
Chunked == last.op \in {"split_into_chunks", "TextProcessor.process_text_file"}

\* the text that was chunked: the text given to split_into_chunks, the cleaned
\* text of the file in process_text_file
ChunkedText ==
    IF last.op = "split_into_chunks" THEN last.args[1] ELSE clean_text(last.args[2])

\* the chunk_size and the chunk_overlap of the TextProcessor
ChunkSizeUsed == last.args[Len(last.args) - 1]
ChunkOverlapUsed == last.args[Len(last.args)]

\* the text chunked is a cleaned text: it is what clean_text leaves of a text
IsCleaned(text) == strip(text) = text /\ (last.op = "split_into_chunks" => clean_text(text) = text)

----------------------------------------------------------------------------

\* C23: no chunk that split_into_chunks returns, called directly or by
\* process_text_file, is longer than chunk_size.
C23_ChunksSizeBounded ==
    Chunked => \A i \in DOMAIN last.value : Len(last.value[i].page_content) <= ChunkSizeUsed

\* a text of one long word and a short one was cut into several chunks, the
\* first of them of the full chunk size
C23_Witness ==
    /\ last.op = "split_into_chunks"
    /\ last.args[1] = <<"a", "a", "a", " ", "b">> /\ last.args[2] = 2
    /\ Len(last.value) >= 2
    /\ Len(last.value[1].page_content) = 2

----------------------------------------------------------------------------

\* str.split(): the words of a text, the runs of characters between whitespace
Words(text) ==
    {SubSeq(text, span[1], span[2]) :
        span \in {p \in (DOMAIN text) \X (DOMAIN text) :
                     /\ p[1] <= p[2]
                     /\ \A k \in p[1]..p[2] : text[k] \notin Whitespace
                     /\ p[1] = 1 \/ text[p[1] - 1] \in Whitespace
                     /\ p[2] = Len(text) \/ text[p[2] + 1] \in Whitespace}}

\* C24: with chunk_overlap > 0, when a text is split into several chunks,
\* every chunk and the chunk after it have a word in common.
C24_OverlapContinuity ==
    (Chunked /\ ChunkOverlapUsed > 0 /\ Len(last.value) > 1) =>
        \A i \in 1..(Len(last.value) - 1) :
            Words(last.value[i].page_content) \cap Words(last.value[i + 1].page_content) # {}

----------------------------------------------------------------------------

\* C25: every chunk that process_text_file returns has the metadata source,
\* chunk_id and chunk_size: the path given, the position of the chunk in the
\* list returned, counted from 0, and the length of the chunk's text.
C25_ChunkMetadata ==
    last.op = "TextProcessor.process_text_file" =>
        \A i \in DOMAIN last.value :
            /\ DOMAIN last.value[i].metadata = {"source", "chunk_id", "chunk_size"}
            /\ last.value[i].metadata.source = last.args[1]
            /\ last.value[i].metadata.chunk_id = i - 1
            /\ last.value[i].metadata.chunk_size = Len(last.value[i].page_content)

\* the file d.txt came back as three chunks of different lengths
C25_Witness ==
    /\ last.op = "TextProcessor.process_text_file"
    /\ last.args[1] = PathD
    /\ Len(last.value) = 3
    /\ last.value[3].metadata.chunk_id = 2
    /\ last.value[1].metadata.chunk_size # last.value[3].metadata.chunk_size

----------------------------------------------------------------------------

\* the number of pairs of n entities
PairsOf(n) == (n * (n - 1)) \div 2

\* the number of pairs of entities of the sentences before sentence k
RECURSIVE PairsBefore(_, _)
PairsBefore(sents, k) ==
    IF k <= 1 THEN 0 ELSE PairsBefore(sents, k - 1) + PairsOf(Len(sents[k - 1].ents))

\* the place of the pair of the i-th and the j-th of n entities (i < j) among
\* the pairs of a sentence, taken entity by entity
PlaceOfPair(n, i, j) == (i - 1) * n - PairsOf(i) + (j - i)

----------------------------------------------------------------------------
(* C27.  Submitting the same text twice to /process/text, or the same file
   twice to /process/file, leaves as many Chunk nodes and as many MENTIONS
   relationships after the second submission as after the first. *)

Ingesting == {"process_text", "process_file"}

C27_SameSubmissionTwice ==
    [][(/\ last.op \in Ingesting
        /\ last.raised = NoError
        /\ last'.op = last.op
        /\ last'.args = last.args
        /\ last'.raised = NoError)
       => /\ Cardinality(chunkNodes') = Cardinality(chunkNodes)
          /\ Cardinality({r \in rels' : r.type = MENTIONS})
                = Cardinality({r \in rels : r.type = MENTIONS})]_vars

----------------------------------------------------------------------------
(* C29.  Every pipeline an API endpoint creates, and its driver, is closed
   before the endpoint returns, on every exit path: no driver opened by an
   endpoint is open once the endpoint has responded. *)

C29_ConnectionsReleased == drivers = 0

----------------------------------------------------------------------------
(* C28.  Once a first ingestion has completed, a similarity search that runs
   while a later ingestion is in progress finds the vector index
   chunk_embeddings in the database and is answered, wherever it falls among
   the statements of that ingestion. *)

\* the step is a similarity search
Searched == last'.op = "similarity_search" /\ UNCHANGED runs

C28_VectorIndexStaysAvailable ==
    [][(Completed # {} /\ InProgress # {} /\ Searched)
       => /\ \E x \in indexes : x.name = "chunk_embeddings"
          /\ last'.raised = NoError]_vars

----------------------------------------------------------------------------
(* C30.  For every top_k >= 0 and every set of N documents,
   find_most_similar_documents returns exactly min(top_k, N) results, in
   order of non-increasing similarity, each one of the top_k most similar
   documents: no document left out is more similar than a document returned,
   and no document is returned twice. *)

Retrieved == last.op = "find_most_similar_documents"

LeftOut(results, documents) == Range(documents) \ {results[i].document : i \in DOMAIN results}

C30_RetrievalSizeAndOrder ==
    Retrieved =>
        \A query_embedding \in {last.args[1]}, document_embeddings \in {last.args[2]},
           documents \in {last.args[3]}, top_k \in {last.args[4]}, results \in {last.value} :
            /\ Len(results) = Min(top_k, Len(documents))
            /\ DescendingScores([i \in DOMAIN results |-> [score |-> results[i].similarity]])
            /\ \A i, j \in DOMAIN results : i # j => results[i].document # results[j].document
            /\ \A i \in DOMAIN results :
                   /\ results[i].document \in Range(documents)
                   /\ results[i].similarity
                          = Cosine(query_embedding, document_embeddings[results[i].document])
                   /\ \A d \in LeftOut(results, documents) :
                          ScoreLeq(Cosine(query_embedding, document_embeddings[d]),
                                   results[i].similarity)

====
